---- MODULE Spec2Model ----
(***************************************************************************)
(* A model of the document-transformation pipeline of ppt-doc-automation:  *)
(* the regex Markdown parser (md_parser.py), the content summarizer        *)
(* (content_summarizer.py), the text fitting rule of the themed renderer   *)
(* (ppt_designer.py), the layout resolver of the legacy renderer           *)
(* (ppt_generator.py) and the template analyzer (template_analyzer.py).    *)
(*                                                                         *)
(* A Python str is a sequence of one-character strings.  A Hangul syllable *)
(* is one character and is written as its romanisation ("<bu>", "<rok>").  *)
(***************************************************************************)
EXTENDS Integers, Sequences, FiniteSets, TLC

(***************************************************************************)
(* str helpers                                                             *)
(***************************************************************************)
None == <<"<None>">>

\* None where the other values are records
NoneRec == [none |-> TRUE]

NL == "\n"

\* the grave accent, which a TLA+ string cannot hold
BackTick == "<backtick>"

IsSpace(c) == c \in {" ", "\t", NL}

Min(S) == CHOOSE x \in S : \A y \in S : x <= y

Max(S) == CHOOSE x \in S : \A y \in S : x >= y

\* s[i..j] of Python's s[i-1:j]; empty when i > j
Slice(s, i, j) ==
    IF i > j \/ i > Len(s) THEN <<>>
    ELSE IF j > Len(s) THEN SubSeq(s, i, Len(s))
    ELSE SubSeq(s, i, j)

\* str.find(c, i-1) + 1 for a one-character c: 0 when absent
MinOr0(K) == IF K = {} THEN 0 ELSE Min(K)

IndexFrom(s, c, i) == MinOr0({k \in i..Len(s) : s[k] = c})

\* str.find(p, i-1) + 1 for a substring p: 0 when absent
FindFrom(s, p, i) ==
    MinOr0({k \in i..(Len(s) - Len(p) + 1) : Slice(s, k, k + Len(p) - 1) = p})

StartsWith(s, p) == Len(s) >= Len(p) /\ Slice(s, 1, Len(p)) = p

EndsWith(s, p) == Len(s) >= Len(p) /\ Slice(s, Len(s) - Len(p) + 1, Len(s)) = p

\* str.strip()
Span(s, K) == IF K = {} THEN <<>> ELSE SubSeq(s, Min(K), Max(K))

Strip(s) == Span(s, {k \in 1..Len(s) : ~IsSpace(s[k])})

\* str.rstrip()
Prefix(s, K) == IF K = {} THEN <<>> ELSE SubSeq(s, 1, Max(K))

RStrip(s) == Prefix(s, {k \in 1..Len(s) : ~IsSpace(s[k])})

\* str.split(c) for a one-character separator: empty pieces are kept
RECURSIVE SplitFrom(_, _, _)
SplitAt(s, c, i, j) ==
    IF j = 0 THEN <<Slice(s, i, Len(s))>>
    ELSE <<Slice(s, i, j - 1)>> \o SplitFrom(s, c, j + 1)

SplitFrom(s, c, i) == SplitAt(s, c, i, IndexFrom(s, c, i))

Split(s, c) == SplitFrom(s, c, 1)

\* sep.join(parts)
RECURSIVE Join(_, _)
Join(parts, sep) ==
    IF parts = <<>> THEN <<>>
    ELSE IF Len(parts) = 1 THEN parts[1]
    ELSE parts[1] \o sep \o Join(Tail(parts), sep)

\* the last index of the physical line that holds position i
LineEndAt(s, j) == IF j = 0 THEN Len(s) ELSE j - 1

LineEnd(s, i) == LineEndAt(s, IndexFrom(s, NL, i))

\* the last index of the maximal run of characters of C that starts at i
\* (i - 1 when s[i] is not in C); K holds the positions from i on that are
\* not part of such a run
RunStop(s, i, K) ==
    IF K # {} THEN Min(K) - 1 ELSE IF i > Len(s) THEN i - 1 ELSE Len(s)

RunEnd(s, C, i) == RunStop(s, i, {k \in i..Len(s) : s[k] \notin C})

\* the last index of the maximal run of characters not in C that starts at i
RunEndNot(s, C, i) == RunStop(s, i, {k \in i..Len(s) : s[k] \in C})

Spaces == {" ", "\t", NL}

Range(s) == {s[i] : i \in 1..Len(s)}

Digits == {"0", "1", "2", "3", "4", "5", "6", "7", "8", "9"}

UpperOf ==
    [c \in {"a", "b", "c", "d", "e", "f", "g", "h", "i", "j", "k", "l", "m",
            "n", "o", "p", "q", "r", "s", "t", "u", "v", "w", "x", "y", "z"} |->
        CASE c = "a" -> "A" [] c = "b" -> "B" [] c = "c" -> "C" [] c = "d" -> "D"
          [] c = "e" -> "E" [] c = "f" -> "F" [] c = "g" -> "G" [] c = "h" -> "H"
          [] c = "i" -> "I" [] c = "j" -> "J" [] c = "k" -> "K" [] c = "l" -> "L"
          [] c = "m" -> "M" [] c = "n" -> "N" [] c = "o" -> "O" [] c = "p" -> "P"
          [] c = "q" -> "Q" [] c = "r" -> "R" [] c = "s" -> "S" [] c = "t" -> "T"
          [] c = "u" -> "U" [] c = "v" -> "V" [] c = "w" -> "W" [] c = "x" -> "X"
          [] c = "y" -> "Y" [] c = "z" -> "Z"]

LowerLetters == DOMAIN UpperOf

UpperLetters == {UpperOf[c] : c \in LowerLetters}

\* the Hangul syllables of the keyword tables (re [\uAC00-\uD7A3]), romanised
Hangul ==
    {"<bu>", "<rok>", "<mun>", "<seo>", "<gae>", "<jeong>", "<i>", "<ryeok>",
     "<cham>", "<go>", "<byeol>", "<cheom>", "<mok>", "<pyo>", "<jeok>",
     "<jeon>", "<ryak>", "<haek>", "<sim>", "<ju>", "<yo>", "<jung>",
     "<pil>", "<su>", "<il>", "<ma>", "<seu>", "<ton>", "<ye>", "<san>",
     "<bi>", "<yong>", "<geum>", "<aek>", "<wi>", "<heom>", "<ri>", "<keu>",
     "<syu>", "<je>", "<seong>", "<gwa>", "<hyo>", "<gi>", "<dae>", "<jo>",
     "<jik>", "<in>", "<dam>", "<dang>", "<eok>", "<man>", "<won>", "<baek>",
     "<gye>", "<yak>", "<wol>", "<myeong>", "<gan>", "<tim>", "<chong>", "<peu>", "<ro>", "<jek>", "<teu>", "<tu>",
     "<ip>", "<nae>", "<jak>", "<ja>", "<re>", "<jen>", "<te>", "<syeon>",
     "<seul>", "<ra>", "<deu>", "<ji>", "<mit>", "<gu>", "<yeok>", "<meo>",
     "<geul>", "<sek>", "<du>", "<ui>", "<kon>", "<ten>", "<cheu>", "<dan>",
     "<gyo>", "<hyeong>", "<bin>", "<hwa>", "<myeon>", "<kaep>", "<it>",
     "<neun>", "<malk>", "<eun>", "<dik>", "<gul>", "<rim>", "<dot>", "<um>",
     "<ba>", "<tang>", "<na>", "<num>", "<cha>", "<gam>", "<sa>", "<hap>",
     "<ni>", "<da>"}

\* re \w
IsWord(c) == c \in Digits \cup LowerLetters \cup UpperLetters \cup Hangul \cup {"_"}

(***************************************************************************)
(* md_parser.py: RegexParser                                               *)
(***************************************************************************)
NoMatch == [ok |-> FALSE, gs |-> 0, ge |-> 0]

MatchFrom(s, g) == [ok |-> TRUE, gs |-> g, ge |-> LineEnd(s, g)]

\* \s+ has run to the end of the text (w = Len(s)): it gives characters back
\* until a character other than a newline is left for (.+)
WsGiveBack(s, K) == IF K = {} THEN NoMatch ELSE MatchFrom(s, Max(K) + 1)

WsRun(s, q, w) ==
    IF w < Len(s) THEN MatchFrom(s, w + 1)
    ELSE WsGiveBack(s, {k \in q..(w - 1) : s[k + 1] # NL})

\* re '\s+(.+)$' (MULTILINE) continued at position q, right after a prefix:
\* the greedy \s+ runs over newlines too; gs..ge is group 1
WsRestMatch(s, q) ==
    IF q <= Len(s) /\ IsSpace(s[q]) THEN WsRun(s, q, RunEnd(s, Spaces, q))
    ELSE NoMatch

\* re '^#{n}\s+(.+)$' (MULTILINE) tried at position p
HeadingMatch(s, p, n) ==
    IF /\ (p = 1 \/ s[p - 1] = NL)
       /\ p + n - 1 <= Len(s)
       /\ \A k \in p..(p + n - 1) : s[k] = "#"
    THEN WsRestMatch(s, p + n)
    ELSE NoMatch

\* group(1) of a match, stripped
Group1(s, m) == Strip(Slice(s, m.gs, m.ge))

FirstHeading(s, P, n) ==
    IF P = {} THEN NoMatch ELSE HeadingMatch(s, Min(P), n)

\* pattern.search(s) from position i, for '^#{n}\s+(.+)$'
HeadingSearch(s, i, n) ==
    FirstHeading(s, {p \in i..Len(s) : HeadingMatch(s, p, n).ok}, n)

TitleOf(md_content, m) == IF m.ok THEN Group1(md_content, m) ELSE None

\* title_pattern.search(md_content): group(1).strip(), or None
title_pattern_search(md_content) ==
    TitleOf(md_content, HeadingSearch(md_content, 1, 1))

\* the starts of h2_pattern.finditer(content) at or after position i
RECURSIVE h2_pattern_finditer(_, _)
H2From(content, p, m) ==
    IF m.ok THEN <<p>> \o h2_pattern_finditer(content, m.ge + 1) ELSE <<>>

H2At(content, P) ==
    IF P = {} THEN <<>> ELSE H2From(content, Min(P), HeadingMatch(content, Min(P), 2))

h2_pattern_finditer(content, i) ==
    H2At(content, {p \in i..Len(content) : HeadingMatch(content, p, 2).ok})

\* content[start:end].strip() for match i
H2Section(content, matches, i) ==
    Strip(Slice(content, matches[i],
                IF i + 1 <= Len(matches) THEN matches[i + 1] - 1 ELSE Len(content)))

H2Sections(content, matches) ==
    IF matches = <<>>
    THEN (IF Strip(content) # <<>> THEN <<content>> ELSE <<>>)
    ELSE SelectSeq([i \in 1..Len(matches) |-> H2Section(content, matches, i)],
                   LAMBDA x : x # <<>>)

split_by_h2(content) == H2Sections(content, h2_pattern_finditer(content, 1))

\* d([^c]+)d matches at i, the inner run ending at e
EmphasisAt(s, d, i, e) ==
    /\ Slice(s, i, i + Len(d) - 1) = d
    /\ e >= i + Len(d)
    /\ e + Len(d) <= Len(s)
    /\ Slice(s, e + 1, e + Len(d)) = d

\* re.sub of d([^c]+)d by \1, scanning from position i: a match can only
\* start at an occurrence o of d
RECURSIVE SubEmphasis(_, _, _, _)
SubEmphasisAt(s, d, c, i, e) ==
    IF EmphasisAt(s, d, i, e)
    THEN Slice(s, i + Len(d), e) \o SubEmphasis(s, d, c, e + Len(d) + 1)
    ELSE <<s[i]>> \o SubEmphasis(s, d, c, i + 1)

SubEmphasisFrom(s, d, c, i, o) ==
    IF o = 0 THEN Slice(s, i, Len(s))
    ELSE Slice(s, i, o - 1)
         \o SubEmphasisAt(s, d, c, o, RunEndNot(s, {c}, o + Len(d)))

SubEmphasis(s, d, c, i) == SubEmphasisFrom(s, d, c, i, FindFrom(s, d, i))

\* the three substitutions shared by _clean_cell_text and _summarize_bullet
StripEmphasis(text) ==
    SubEmphasis(SubEmphasis(SubEmphasis(text, <<"*", "*">>, "*", 1),
                            <<"*">>, "*", 1),
                <<BackTick>>, BackTick, 1)

clean_cell_text(text) == Strip(StripEmphasis(text))

\* cells = [cell.strip() for cell in line.split('|')]; cells = [c for c in cells if c]
StripAll(raw) == [i \in 1..Len(raw) |-> Strip(raw[i])]

TableCells(line) == SelectSeq(StripAll(Split(line, "|")), LAMBDA c : c # <<>>)

\* the separator test of _parse_table
IsSeparatorCells(cells) ==
    /\ cells # <<>>
    /\ \A i \in 1..Len(cells) :
          Strip(SelectSeq(cells[i], LAMBDA ch : ch \notin {"-", ":"})) = <<>>

CleanCells(cells) == [i \in 1..Len(cells) |-> clean_cell_text(cells[i])]

\* one pass of the loop of _parse_table, acc = [headers, rows]
parse_table_row(acc, i, cells) ==
    IF IsSeparatorCells(cells) THEN acc
    ELSE IF i = 1 THEN [acc EXCEPT !.headers = CleanCells(cells)]
    ELSE IF cells # <<>> THEN [acc EXCEPT !.rows = Append(@, CleanCells(cells))]
    ELSE acc

\* the loop of _parse_table from line i on
RECURSIVE parse_table_loop(_, _, _)
parse_table_loop(table_lines, i, acc) ==
    IF i > Len(table_lines) THEN acc
    ELSE parse_table_loop(table_lines, i + 1,
                          parse_table_row(acc, i, TableCells(table_lines[i])))

TableOrNone(t) == IF t.headers = <<>> THEN NoneRec ELSE t

\* _parse_table: a table record, or None
parse_table(table_lines) ==
    IF Len(table_lines) < 2 THEN NoneRec
    ELSE TableOrNone(parse_table_loop(table_lines, 1,
                                      [headers |-> <<>>, rows |-> <<>>]))

NoImage == [ok |-> FALSE, alt |-> <<>>, src |-> <<>>]

\* '!\[([^\]]*)\]\(([^)]+)\)' at i: j is the first "]", e the end of the
\* run of characters other than ")" after "]("
ImageSpan(line, i, j, e) ==
    IF /\ i + 1 <= Len(line)
       /\ line[i] = "!"
       /\ line[i + 1] = "["
       /\ j + 1 <= Len(line)
       /\ line[j + 1] = "("
       /\ e >= j + 2
       /\ e + 1 <= Len(line)
    THEN [ok |-> TRUE, alt |-> Slice(line, i + 2, j - 1), src |-> Slice(line, j + 2, e)]
    ELSE NoImage

ImageClose(line, i, j) == ImageSpan(line, i, j, RunEndNot(line, {")"}, j + 2))

ImageMatchAt(line, i) == ImageClose(line, i, RunEndNot(line, {"]"}, i + 2) + 1)

FirstImage(line, P) == IF P = {} THEN NoImage ELSE ImageMatchAt(line, Min(P))

\* image_pattern.search(line)
image_pattern_search(line) ==
    FirstImage(line, {i \in 1..Len(line) : ImageMatchAt(line, i).ok})

\* bullet_pattern.match(line): re '^[-*]\s+(.+)$'
bullet_pattern_match(line) ==
    IF Len(line) >= 1 /\ line[1] \in {"-", "*"} THEN WsRestMatch(line, 2)
    ELSE NoMatch

\* numbered_pattern.match(line): re '^\d+\.\s+(.+)$'
NumberedFrom(line, d) ==
    IF d >= 1 /\ d + 1 <= Len(line) /\ line[d + 1] = "." THEN WsRestMatch(line, d + 2)
    ELSE NoMatch

numbered_pattern_match(line) == NumberedFrom(line, RunEnd(line, Digits, 1))

\* slide["tables"].append(table_data) under "if table_data"
AppendTable(tables, table_data) ==
    IF table_data # NoneRec THEN Append(tables, table_data) ELSE tables

\* the two places where _parse_section closes the buffered table
FlushTable(acc) ==
    IF acc.in_table /\ acc.table_buffer # <<>>
    THEN [acc EXCEPT !.tables = AppendTable(@, parse_table(acc.table_buffer)),
                     !.table_buffer = <<>>,
                     !.in_table = FALSE]
    ELSE acc

Item(type, text) == [type |-> type, text |-> text]

AppendContent(acc, type, text) ==
    [acc EXCEPT !.content = Append(@, Item(type, text))]

\* a cascade that asks for a bullet before it asks for an image
ClassifyLineBulletFirst(acc, flushed, line, img, bul, num) ==
    IF line = <<>> THEN flushed
    ELSE IF StartsWith(line, <<"|">>) /\ EndsWith(line, <<"|">>)
    THEN [acc EXCEPT !.in_table = TRUE, !.table_buffer = Append(@, line)]
    ELSE IF bul.ok
    THEN AppendContent(flushed, "bullet", Slice(line, bul.gs, bul.ge))
    ELSE IF img.ok
    THEN [flushed EXCEPT !.images = Append(@, [alt |-> img.alt, src |-> img.src])]
    ELSE IF num.ok
    THEN AppendContent(flushed, "numbered", Slice(line, num.gs, num.ge))
    ELSE IF StartsWith(line, <<"#", "#", "#", " ">>)
    THEN AppendContent(flushed, "subheading", Slice(line, 5, Len(line)))
    ELSE IF StartsWith(line, <<"-", "-", "-">>) THEN flushed
    ELSE AppendContent(flushed, "text", line)

\* the pattern cascade of the line loop: acc is the state before the line,
\* flushed the same state with the buffered table closed
ClassifyLine(acc, flushed, line, img, bul, num) ==
    IF line = <<>> THEN flushed
    ELSE IF StartsWith(line, <<"|">>) /\ EndsWith(line, <<"|">>)
    THEN [acc EXCEPT !.in_table = TRUE, !.table_buffer = Append(@, line)]
    ELSE IF img.ok
    THEN [flushed EXCEPT !.images = Append(@, [alt |-> img.alt, src |-> img.src])]
    ELSE IF bul.ok
    THEN AppendContent(flushed, "bullet", Slice(line, bul.gs, bul.ge))
    ELSE IF num.ok
    THEN AppendContent(flushed, "numbered", Slice(line, num.gs, num.ge))
    ELSE IF StartsWith(line, <<"#", "#", "#", " ">>)
    THEN AppendContent(flushed, "subheading", Slice(line, 5, Len(line)))
    ELSE IF StartsWith(line, <<"-", "-", "-">>) THEN flushed
    ELSE AppendContent(flushed, "text", line)

\* one pass of the line loop of _parse_section
parse_line(acc, raw) ==
    ClassifyLine(acc, FlushTable(acc), Strip(raw), image_pattern_search(Strip(raw)),
                 bullet_pattern_match(Strip(raw)), numbered_pattern_match(Strip(raw)))

RECURSIVE parse_lines(_, _)
parse_lines(acc, lines) ==
    IF lines = <<>> THEN acc
    ELSE parse_lines(parse_line(acc, Head(lines)), Tail(lines))

Fence == <<BackTick, BackTick, BackTick>>

\* the end of the \w* run of a fence opened at p
FenceLangEnd(section, p) ==
    RunEnd(section, {c \in Range(section) : IsWord(c)}, p + 3)

\* re '```(\w*)\n(.*?)```' with DOTALL tried at position p
FenceMatchAt(section, p, e) ==
    /\ Slice(section, p, p + 2) = Fence
    /\ e + 1 <= Len(section)
    /\ section[e + 1] = NL
    /\ FindFrom(section, Fence, e + 2) # 0

CodeBlock(lang, code) ==
    [language |-> IF lang = <<>> THEN <<"t", "e", "x", "t">> ELSE lang,
     code |-> Strip(code)]

\* code_block_pattern.findall(section) from position i
RECURSIVE code_block_findall(_, _)
FenceFrom(section, p, e, j) ==
    <<CodeBlock(Slice(section, p + 3, e), Slice(section, e + 2, j - 1))>>
        \o code_block_findall(section, j + 3)

FenceAt(section, p, e) == FenceFrom(section, p, e, FindFrom(section, Fence, e + 2))

FirstFence(section, P) ==
    IF P = {} THEN <<>>
    ELSE FenceAt(section, Min(P), FenceLangEnd(section, Min(P)))

code_block_findall(section, i) ==
    FirstFence(section, {p \in i..Len(section) :
                            FenceMatchAt(section, p, FenceLangEnd(section, p))})

\* the rule with code blocks asked about before images
SectionLayoutCodeFirst(slide) ==
    IF slide.code_blocks # <<>> THEN "code"
    ELSE IF slide.images # <<>> /\ slide.content = <<>> THEN "image_only"
    ELSE IF slide.images # <<>> THEN "image_content"
    ELSE IF slide.tables # <<>> THEN "table"
    ELSE "title_content"

\* the layout rule that closes _parse_section
SectionLayout(slide) ==
    IF slide.images # <<>> /\ slide.content = <<>> THEN "image_only"
    ELSE IF slide.images # <<>> THEN "image_content"
    ELSE IF slide.code_blocks # <<>> THEN "code"
    ELSE IF slide.tables # <<>> THEN "table"
    ELSE "title_content"

\* the slide dict once the loop, the trailing table and the code blocks are in
FinishSection(title, acc, tables, code_blocks) ==
    IF (title # None /\ title # <<>>) \/ acc.content # <<>> \/ tables # <<>>
    THEN [title |-> title, content |-> acc.content, images |-> acc.images,
          code_blocks |-> code_blocks, tables |-> tables,
          layout |-> SectionLayout([content |-> acc.content, images |-> acc.images,
                                    code_blocks |-> code_blocks, tables |-> tables])]
    ELSE NoneRec

\* the table still buffered when the section ends
TrailingTable(acc) ==
    IF acc.table_buffer # <<>>
    THEN AppendTable(acc.tables, parse_table(acc.table_buffer))
    ELSE acc.tables

EmptySlideAcc ==
    [content |-> <<>>, images |-> <<>>, tables |-> <<>>,
     table_buffer |-> <<>>, in_table |-> FALSE]

SectionBody(section, title, acc) ==
    FinishSection(title, acc, TrailingTable(acc), code_block_findall(section, 1))

SectionLines(section, lines) ==
    IF StartsWith(lines[1], <<"#", "#", " ">>)
    THEN SectionBody(section, Strip(Slice(lines[1], 4, Len(lines[1]))),
                     parse_lines(EmptySlideAcc, Tail(lines)))
    ELSE SectionBody(section, None, parse_lines(EmptySlideAcc, lines))

\* _parse_section: a slide record, or None
parse_section(section) == SectionLines(section, Split(section, NL))

\* key, value = line.split(':', 1), both stripped
MetaKey(l) == Strip(Slice(l, 1, IndexFrom(l, ":", 1) - 1))

MetaValue(l) == Strip(Slice(l, IndexFrom(l, ":", 1) + 1, Len(l)))

\* the dict built from the lines that hold ':'; a later line with the same
\* key overwrites an earlier one
MetaDict(keyed) ==
    [k \in {MetaKey(keyed[i]) : i \in 1..Len(keyed)} |->
        MetaValue(keyed[Max({i \in 1..Len(keyed) : MetaKey(keyed[i]) = k})])]

FrontMatterDict(frontmatter) ==
    MetaDict(SelectSeq(Split(frontmatter, NL), LAMBDA l : IndexFrom(l, ":", 1) # 0))

FrontMatterUpTo(md_content, end) ==
    IF StartsWith(md_content, <<"-", "-", "-">>) /\ end > 1
    THEN FrontMatterDict(Strip(Slice(md_content, 4, end - 1)))
    ELSE <<>>

\* RegexParser.extract_metadata
extract_metadata(md_content) ==
    FrontMatterUpTo(md_content, FindFrom(md_content, <<"-", "-", "-">>, 4))

\* RegexParser.parse
ParseSections(sections) ==
    SelectSeq([i \in 1..Len(sections) |-> parse_section(sections[i])],
              LAMBDA sl : sl # NoneRec)

parse(md_content) ==
    [title |-> title_pattern_search(md_content),
     slides |-> ParseSections(split_by_h2(md_content)),
     metadata |-> <<>>]

(***************************************************************************)
(* content_summarizer.py: ContentSummarizer                                *)
(***************************************************************************)
VARIABLES
    parsed_data,          \* the ParsedDocument handed to ContentSummarizer
    self_parsed_content,  \* ContentSummarizer.parsed_content
    presentation,         \* the PresentationContent summarize built last
    summaries             \* what the calls of summarize returned, in order

MAX_BULLETS_PER_SLIDE == 5

MAX_BULLET_LENGTH == 60

MAX_TABLE_ROWS == 6

MAX_SLIDES == 15

IMPORTANT_KEYWORDS ==
    << <<"<mok>", "<pyo>">>, <<"<mok>", "<jeok>">>, <<"<jeon>", "<ryak>">>,
       <<"<haek>", "<sim>">>, <<"<ju>", "<yo>">>, <<"<jung>", "<yo>">>,
       <<"<pil>", "<su>">>, <<"<il>", "<jeong>">>,
       <<"<ma>", "<il>", "<seu>", "<ton>">>, <<"<ye>", "<san>">>,
       <<"<bi>", "<yong>">>, <<"<geum>", "<aek>">>, <<"<wi>", "<heom>">>,
       <<"<ri>", "<seu>", "<keu>">>, <<"<i>", "<syu>">>, <<"<mun>", "<je>">>,
       <<"<seong>", "<gwa>">>, <<"<hyo>", "<gwa>">>, <<"<gi>", "<dae>">>,
       <<"K", "P", "I">>, <<"<jo>", "<jik>">>, <<"<in>", "<ryeok>">>,
       <<"<dam>", "<dang>">>, <<"P", "M">>, <<"P", "L">> >>

SKIP_SECTIONS ==
    << <<"<bu>", "<rok>">>,
       <<"<mun>", "<seo>", " ", "<gae>", "<jeong>", " ", "<i>", "<ryeok>">>,
       <<"<cham>", "<go>">>, <<"<byeol>", "<cheom>">> >>

\* p in s
Contains(s, p) == FindFrom(s, p, 1) # 0

\* any(kw in text for kw in kws)
ContainsAny(text, kws) == \E k \in 1..Len(kws) : Contains(text, kws[k])

\* the truth value of an Optional[str]
Truthy(x) == x # None /\ x # <<>>

\* str(n) of a natural number
RECURSIVE ToDecimal(_)
ToDecimal(n) ==
    IF n < 10 THEN <<CHOOSE d \in Digits : d = ToString(n)>>
    ELSE ToDecimal(n \div 10) \o ToDecimal(n % 10)

\* _summarize_bullet
\* a long bullet cut at 57 characters whatever it holds
ShortenLongByCut(text, colon) ==
    Slice(text, 1, MAX_BULLET_LENGTH - 3) \o <<".", ".", ".">>

ShortenLong(text, colon) ==
    IF colon # 0 /\ colon - 1 <= MAX_BULLET_LENGTH
    THEN Strip(Slice(text, 1, colon - 1))
    ELSE Slice(text, 1, MAX_BULLET_LENGTH - 3) \o <<".", ".", ".">>

Shorten(text) ==
    IF Len(text) > MAX_BULLET_LENGTH
    THEN ShortenLong(text, IndexFrom(text, ":", 1))
    ELSE Strip(text)

summarize_bullet(text) ==
    IF text = <<>> THEN None ELSE Shorten(StripEmphasis(text))

\* re \d+(?:,\d{3})*(?:\.\d+)? matches the whole of t
AllDigits(t) == \A k \in 1..Len(t) : t[k] \in Digits

IsGrouped(parts) ==
    /\ parts[1] # <<>>
    /\ AllDigits(parts[1])
    /\ \A k \in 2..Len(parts) : Len(parts[k]) = 3 /\ AllDigits(parts[k])

IsNumberAt(t, dot) ==
    IF dot = 0 THEN IsGrouped(Split(t, ","))
    ELSE /\ IsGrouped(Split(Slice(t, 1, dot - 1), ","))
         /\ dot < Len(t)
         /\ AllDigits(Slice(t, dot + 1, Len(t)))

IsNumber(t) == IsNumberAt(t, IndexFrom(t, ".", 1))

\* the alternation (?:u1|u2|...) tried at position u: the last index of the
\* first alternative that matches there, 0 when none does
UnitEndOf(u, units, K) == IF K = {} THEN 0 ELSE u + Len(units[Min(K)]) - 1

UnitEnd(s, u, units) ==
    UnitEndOf(u, units,
              {k \in 1..Len(units) : Slice(s, u, u + Len(units[k]) - 1) = units[k]})

\* \s*(?:units) continued right after position e
UnitAfter(s, e, units) == UnitEnd(s, RunEnd(s, Spaces, e + 1) + 1, units)

\* re.search result: the match s[ms..me], ok FALSE when there is none
NoSpan == [ok |-> FALSE, ms |-> 0, me |-> 0]

SpanOf(ms, me) == [ok |-> TRUE, ms |-> ms, me |-> me]

Group0(s, m) == Slice(s, m.ms, m.me)

\* (\d+(?:,\d{3})*(?:\.\d+)?)\s*(?:eok|man|won|baekman) starting at i: the
\* number may stop at any e where the rest still matches
MoneyUnits == << <<"<eok>">>, <<"<man>">>, <<"<won>">>, <<"<baek>", "<man>">> >>

MoneyEnds(s, i) ==
    {UnitAfter(s, e, MoneyUnits) :
        e \in {e \in i..Len(s) : IsNumber(Slice(s, i, e))}} \ {0}

MoneyEnd(s, i) == Max(MoneyEnds(s, i))

MoneyFirst(s, I) ==
    IF I = {} THEN NoSpan ELSE SpanOf(Min(I), MoneyEnd(s, Min(I)))

money_search(s) == MoneyFirst(s, {i \in 1..Len(s) : MoneyEnds(s, i) # {}})

\* ([hangul]+(?:geumaek|biyong|yesan|gyeyak)): the greedy run gives syllables
\* back until one of the endings follows
LabelEndings ==
    << <<"<geum>", "<aek>">>, <<"<bi>", "<yong>">>, <<"<ye>", "<san>">>,
       <<"<gye>", "<yak>">> >>

LabelEnds(s, i) ==
    IF s[i] \notin Hangul THEN {}
    ELSE {UnitEnd(s, k + 1, LabelEndings) : k \in i..RunEnd(s, Hangul, i)} \ {0}

LabelEnd(s, i) == Max(LabelEnds(s, i))

LabelFirst(s, I) ==
    IF I = {} THEN NoSpan ELSE SpanOf(Min(I), LabelEnd(s, Min(I)))

label_search(s) == LabelFirst(s, {i \in 1..Len(s) : LabelEnds(s, i) # {}})

\* (\d+)\s*(?:units) starting at i
CountEnd(s, i, units) ==
    IF s[i] \in Digits THEN UnitAfter(s, RunEnd(s, Digits, i), units) ELSE 0

CountFirst(s, units, I) ==
    IF I = {} THEN NoSpan ELSE SpanOf(Min(I), CountEnd(s, Min(I), units))

count_search(s, units) ==
    CountFirst(s, units, {i \in 1..Len(s) : CountEnd(s, i, units) # 0})

PeriodUnits == << <<"<gae>", "<wol>">>, <<"<ju>">>, <<"<il>">> >>

PeriodKeywords ==
    << <<"<gi>", "<gan>">>, <<"<il>", "<jeong>">>, <<"<gye>", "<yak>">> >>

PeopleUnits == << <<"<myeong>">>, <<"<in>">> >>

PeopleKeywords == << <<"<in>", "<ryeok>">>, <<"<in>", "<won>">>, <<"<tim>">> >>

PeriodLabel == <<"<peu>", "<ro>", "<jek>", "<teu>", " ", "<gi>", "<gan>">>

PeopleLabel == <<"<tu>", "<ip>", " ", "<in>", "<ryeok>">>

\* what _extract_key_info returns: a dict, a str or None
Metric(label, value) == [kind |-> "dict", label |-> label, value |-> value]

PlainText(text) == [kind |-> "str", label |-> <<>>, value |-> text]

NoInfo == [kind |-> "None", label |-> <<>>, value |-> <<>>]

KeyInfoPlain(text) ==
    IF Len(text) <= MAX_BULLET_LENGTH THEN PlainText(Strip(text)) ELSE NoInfo

KeyInfoPeople(text, people_match) ==
    IF people_match.ok /\ ContainsAny(text, PeopleKeywords)
    THEN Metric(PeopleLabel, Group0(text, people_match))
    ELSE KeyInfoPlain(text)

KeyInfoPeriod(text, period_match) ==
    IF period_match.ok /\ ContainsAny(text, PeriodKeywords)
    THEN Metric(PeriodLabel, Group0(text, period_match))
    ELSE KeyInfoPeople(text, count_search(text, PeopleUnits))

KeyInfoLabel(text, money_match, label_match) ==
    IF label_match.ok
    THEN Metric(Group0(text, label_match), Group0(text, money_match))
    ELSE KeyInfoPeriod(text, count_search(text, PeriodUnits))

KeyInfoMoney(text, money_match) ==
    IF money_match.ok THEN KeyInfoLabel(text, money_match, label_search(text))
    ELSE KeyInfoPeriod(text, count_search(text, PeriodUnits))

extract_key_info(text) ==
    IF text = <<>> THEN NoInfo ELSE KeyInfoMoney(text, money_search(text))

\* _extract_table_from_content
TableTexts(content_items) ==
    SelectSeq([i \in 1..Len(content_items) |-> content_items[i].text],
              LAMBDA text : Contains(text, <<"|">>)
                            /\ ~Contains(text, <<"-", "-", "-">>))

LegacyTable(headers, rows) ==
    IF headers = <<>> \/ rows = <<>> THEN NoneRec
    ELSE [headers |-> headers, rows |-> Slice(rows, 1, MAX_TABLE_ROWS)]

LegacyRows(cells, headers) ==
    SelectSeq(Tail(cells), LAMBDA c : Len(c) = Len(headers))

LegacyCells(cells) == LegacyTable(cells[1], LegacyRows(cells, cells[1]))

LegacyParse(table_texts) ==
    IF table_texts = <<>> THEN NoneRec
    ELSE LegacyCells([i \in 1..Len(table_texts) |-> TableCells(table_texts[i])])

extract_table_from_content(content_items) ==
    LegacyParse(TableTexts(content_items))

\* _calculate_importance
VeryImportant ==
    << <<"<gae>", "<yo>">>, <<"<mok>", "<pyo>">>, <<"<jeon>", "<ryak>">>,
       <<"<il>", "<jeong>">>, <<"<jo>", "<jik>">>, <<"<wi>", "<heom>">> >>

\* a score in which the first list is looked at last and has the last word
calculate_importance_first_list_wins(title, bullets) ==
    IF ContainsAny(title, IMPORTANT_KEYWORDS) THEN 2
    ELSE IF ContainsAny(title, VeryImportant) THEN 3
    ELSE 1

calculate_importance(title, bullets) ==
    IF ContainsAny(title, VeryImportant) THEN 3
    ELSE IF ContainsAny(title, IMPORTANT_KEYWORDS) THEN 2
    ELSE 1

\* the classification loop of _summarize_slide: what one item appends, and
\* to which of the two lists
Nothing == [to |-> "neither", entry |-> <<>>]

BulletOutcome(summarized) ==
    IF Truthy(summarized) THEN [to |-> "bullets", entry |-> summarized]
    ELSE Nothing

ExtractedOutcome(extracted) ==
    IF extracted.kind = "dict"
    THEN [to |-> "metrics",
          entry |-> [label |-> extracted.label, value |-> extracted.value]]
    ELSE IF extracted.kind = "str" THEN BulletOutcome(extracted.value)
    ELSE Nothing

ItemOutcome(item) ==
    IF item.type \in {"bullet", "numbered"}
    THEN BulletOutcome(summarize_bullet(item.text))
    ELSE IF item.type = "text"
    THEN ExtractedOutcome(extract_key_info(item.text))
    ELSE Nothing

EntriesOf(outcomes) == [i \in 1..Len(outcomes) |-> outcomes[i].entry]

Appended(outcomes, to) ==
    EntriesOf(SelectSeq(outcomes, LAMBDA o : o.to = to))

Classified(outcomes) ==
    [bullets |-> Appended(outcomes, "bullets"),
     metrics |-> Appended(outcomes, "metrics")]

ClassifyItems(content_items) ==
    Classified([i \in 1..Len(content_items) |-> ItemOutcome(content_items[i])])

\* the table of the slide: the parser's first table with its rows capped, or
\* the legacy extraction
CapRows(table_data) ==
    IF table_data.rows # <<>>
    THEN [headers |-> table_data.headers,
          rows |-> Slice(table_data.rows, 1, MAX_TABLE_ROWS)]
    ELSE table_data

SlideTable(parsed_tables, content_items) ==
    IF parsed_tables # <<>> THEN CapRows(parsed_tables[1])
    ELSE extract_table_from_content(content_items)

SlideContent(title, bullets, key_metrics, table_data, layout_hint, importance) ==
    [title |-> title, subtitle |-> None, bullets |-> bullets,
     key_metrics |-> key_metrics, table_data |-> table_data,
     layout_hint |-> layout_hint, importance |-> importance]

MainContents ==
    <<" ", "-", " ", "<ju>", "<yo>", " ", "<nae>", "<yong>">>

TableSlides(title, bullets, table_data, importance) ==
    <<SlideContent(title, <<>>, <<>>, table_data, "table", importance)>>
    \o (IF bullets # <<>>
        THEN <<SlideContent(title \o MainContents,
                            Slice(bullets, 1, MAX_BULLETS_PER_SLIDE), <<>>,
                            NoneRec, "bullet", importance)>>
        ELSE <<>>)

MetricsSlide(title, bullets, metrics, importance) ==
    SlideContent(title, Slice(bullets, 1, 3), Slice(metrics, 1, 4), NoneRec,
                 "metrics", importance)

\* the chunk that starts at bullets[i] (0-based i, a multiple of the chunk size)
ChunkSuffix(bullets, i) ==
    IF Len(bullets) > MAX_BULLETS_PER_SLIDE
    THEN <<" ", "(">> \o ToDecimal(i \div MAX_BULLETS_PER_SLIDE + 1) \o <<")">>
    ELSE <<>>

BulletChunk(title, bullets, importance, i) ==
    SlideContent(title \o ChunkSuffix(bullets, i),
                 Slice(bullets, i + 1, i + MAX_BULLETS_PER_SLIDE), <<>>,
                 NoneRec, "bullet", importance)

\* chunks that are numbered whenever the section has bullets
BulletSlidesNumberedFromFive(title, bullets, importance) ==
    [k \in 1..((Len(bullets) + MAX_BULLETS_PER_SLIDE - 1) \div MAX_BULLETS_PER_SLIDE) |->
        SlideContent(title \o (IF Len(bullets) >= MAX_BULLETS_PER_SLIDE
                               THEN <<" ", "(">> \o ToDecimal(k) \o <<")">>
                               ELSE <<>>),
                     Slice(bullets, (k - 1) * MAX_BULLETS_PER_SLIDE + 1,
                           k * MAX_BULLETS_PER_SLIDE),
                     <<>>, NoneRec, "bullet", importance)]

BulletSlides(title, bullets, importance) ==
    [k \in 1..((Len(bullets) + MAX_BULLETS_PER_SLIDE - 1) \div MAX_BULLETS_PER_SLIDE) |->
        BulletChunk(title, bullets, importance, (k - 1) * MAX_BULLETS_PER_SLIDE)]

\* a branch order that looks at the metrics before the table
BuildSlidesMetricsFirst(title, bullets, metrics, table_data, importance) ==
    IF metrics # <<>> THEN <<MetricsSlide(title, bullets, metrics, importance)>>
    ELSE IF table_data # NoneRec
    THEN TableSlides(title, bullets, table_data, importance)
    ELSE IF bullets # <<>> THEN BulletSlides(title, bullets, importance)
    ELSE <<SlideContent(title, <<>>, <<>>, NoneRec, "title_only", importance)>>

BuildSlides(title, bullets, metrics, table_data, importance) ==
    IF table_data # NoneRec THEN TableSlides(title, bullets, table_data, importance)
    ELSE IF metrics # <<>> THEN <<MetricsSlide(title, bullets, metrics, importance)>>
    ELSE IF bullets # <<>> THEN BulletSlides(title, bullets, importance)
    ELSE <<SlideContent(title, <<>>, <<>>, NoneRec, "title_only", importance)>>

SlidesOf(title, classified, table_data) ==
    BuildSlides(title, classified.bullets, classified.metrics, table_data,
                calculate_importance(title, classified.bullets))

\* skipping only the titles that begin with a keyword
SummarizeTitledByPrefix(title, slide_data) ==
    IF \E k \in 1..Len(SKIP_SECTIONS) : StartsWith(title, SKIP_SECTIONS[k])
    THEN <<>>
    ELSE SlidesOf(title,
                  ClassifyItems(slide_data.content),
                  SlideTable(slide_data.tables, slide_data.content))

SummarizeTitled(title, slide_data) ==
    IF ContainsAny(title, SKIP_SECTIONS) THEN <<>>
    ELSE SlidesOf(title,
                  ClassifyItems(slide_data.content),
                  SlideTable(slide_data.tables, slide_data.content))

\* _summarize_slide
summarize_slide(slide_data) ==
    SummarizeTitled(IF Truthy(slide_data.title) THEN slide_data.title ELSE <<>>,
                    slide_data)

\* sorted(slides, key=lambda s: s.importance, reverse=True): a stable sort.
\* The slide at index i lands after the slides of higher importance and after
\* the earlier slides of the same importance.
SortedIndex(slides, i) ==
    1 + Cardinality({j \in 1..Len(slides) :
                        \/ slides[j].importance > slides[i].importance
                        \/ j < i /\ slides[j].importance = slides[i].importance})

\* a sort that turns the slides of equal importance around
SortedTiesReversed(slides) ==
    [k \in 1..Len(slides) |->
        slides[CHOOSE i \in 1..Len(slides) :
                   k = 1 + Cardinality({j \in 1..Len(slides) :
                           \/ slides[j].importance > slides[i].importance
                           \/ j > i /\ slides[j].importance = slides[i].importance})]]

SortedByImportance(slides) ==
    [k \in 1..Len(slides) |->
        slides[CHOOSE i \in 1..Len(slides) : SortedIndex(slides, i) = k]]

\* a _prioritize_slides that only sorts, without the cut to MAX_SLIDES
prioritize_without_cut(slides) ==
    IF Len(slides) <= MAX_SLIDES THEN slides ELSE SortedByImportance(slides)

\* _prioritize_slides
prioritize_slides(slides) ==
    IF Len(slides) <= MAX_SLIDES THEN slides
    ELSE Slice(SortedByImportance(slides), 1, MAX_SLIDES)

\* the subtitle summarize takes from the metadata
Key_author == <<"a", "u", "t", "h", "o", "r">>

Key_date == <<"d", "a", "t", "e">>

AuthorPrefix == <<"<jak>", "<seong>", "<ja>", ":", " ">>

SubtitleOf(metadata) ==
    IF Key_date \in DOMAIN metadata THEN metadata[Key_date]
    ELSE IF Key_author \in DOMAIN metadata THEN AuthorPrefix \o metadata[Key_author]
    ELSE None

DefaultTitle == <<"<peu>", "<re>", "<jen>", "<te>", "<i>", "<syeon>">>

\* a PresentationContent whose slides list is one list shared by every
\* object (a mutable default) instead of a new list per object
PresentationContentSharedSlides(title, metadata) ==
    [title |-> title, subtitle |-> None,
     slides |-> IF presentation = NoneRec THEN <<>> ELSE presentation.slides,
     metadata |-> metadata]

\* summarize
PresentationContent(title, metadata) ==
    [title |-> title, subtitle |-> None, slides |-> <<>>, metadata |-> metadata]

WithSubtitle(p) == [p EXCEPT !.subtitle = SubtitleOf(p.metadata)]

RECURSIVE ExtendSlides(_, _)
ExtendSlides(slides, slide_datas) ==
    IF slide_datas = <<>> THEN slides
    ELSE ExtendSlides(slides \o summarize_slide(Head(slide_datas)),
                      Tail(slide_datas))

Summarized(p, parsed) ==
    [p EXCEPT !.slides = prioritize_slides(ExtendSlides(@, parsed.slides))]

summarize(parsed) ==
    Summarized(WithSubtitle(PresentationContent(
                   IF "title" \in DOMAIN parsed THEN parsed.title ELSE DefaultTitle,
                   IF "metadata" \in DOMAIN parsed THEN parsed.metadata ELSE <<>>)),
               parsed)

(***************************************************************************)
(* ppt_designer.py: PPTDesigner._limit_text_lines                          *)
(***************************************************************************)
VARIABLES
    fit_text,            \* the text handed to _limit_text_lines
    fit_chars_per_line,  \* its chars_per_line argument
    fit_max_lines,       \* its max_lines argument
    fit_result           \* what it returned, None before the call

\* str.split(): the maximal runs of non-whitespace characters, from position i
RECURSIVE WordsFrom(_, _)
WordsAt(s, K) ==
    IF K = {} THEN <<>>
    ELSE <<Slice(s, Min(K), RunEndNot(s, Spaces, Min(K)))>>
         \o WordsFrom(s, RunEndNot(s, Spaces, Min(K)) + 1)

WordsFrom(s, i) == WordsAt(s, {k \in i..Len(s) : ~IsSpace(s[k])})

SplitWords(s) == WordsFrom(s, 1)

\* the word loop: lines and current_line after the loop has ended or broken
RECURSIVE PackWords(_, _, _, _, _)
StartLine(rest, chars_per_line, max_lines, lines, word) ==
    IF Len(lines) >= max_lines THEN [lines |-> lines, current_line |-> word]
    ELSE PackWords(rest, chars_per_line, max_lines, lines, word)

PackWords(words, chars_per_line, max_lines, lines, current_line) ==
    IF words = <<>> THEN [lines |-> lines, current_line |-> current_line]
    ELSE IF Len(current_line) + Len(Head(words)) + 1 <= chars_per_line
    THEN PackWords(Tail(words), chars_per_line, max_lines, lines,
                   IF current_line # <<>>
                   THEN current_line \o <<" ">> \o Head(words)
                   ELSE Head(words))
    ELSE StartLine(Tail(words), chars_per_line, max_lines,
                   IF current_line # <<>> THEN Append(lines, current_line)
                   ELSE lines,
                   Head(words))

\* a last-line rule that appends the pending line whatever the line count
LastLineAlways(packed, max_lines) ==
    IF packed.current_line # <<>> THEN Append(packed.lines, packed.current_line)
    ELSE packed.lines

\* if current_line and len(lines) < max_lines: lines.append(current_line)
LastLine(packed, max_lines) ==
    IF packed.current_line # <<>> /\ Len(packed.lines) < max_lines
    THEN Append(packed.lines, packed.current_line)
    ELSE packed.lines

\* the joined lines, with the ellipsis where words were left out
FitResult(words, lines, max_lines) ==
    IF Len(lines) >= max_lines
       /\ Len(words) > Len(SplitWords(Join(lines, <<" ">>)))
    THEN RStrip(Join(lines, <<NL>>)) \o <<".", ".", ".">>
    ELSE Join(lines, <<NL>>)

FitWords(words, chars_per_line, max_lines) ==
    FitResult(words,
              LastLine(PackWords(words, chars_per_line, max_lines, <<>>, <<>>),
                       max_lines),
              max_lines)

limit_text_lines(text, chars_per_line, max_lines) ==
    IF text = <<>> THEN <<>>
    ELSE FitWords(SplitWords(text), chars_per_line, max_lines)

(***************************************************************************)
(* ppt_generator.py: LayoutMapping, LayoutResolver, PPTGenerator           *)
(***************************************************************************)
VARIABLES
    slide_layouts,  \* prs.slide_layouts: the layout names, in deck order
    layout_cache,   \* LayoutResolver._layout_cache: key -> layout (its index)
    layout_call,    \* the last call of get_layout: the role and the outcome
    prs_slides,     \* prs.slides: layout type and layout of each slide added
    generator_pc,   \* "ready", "generating", "saved", or "raised" once an
                    \* error left
    output_files,   \* the paths of the files and directories there are
    generate_result \* what generate returned or raised

\* str.lower()
LowerOf(c) ==
    IF c \in UpperLetters THEN CHOOSE l \in LowerLetters : UpperOf[l] = c ELSE c

Lower(name) == [i \in 1..Len(name) |-> LowerOf(name[i])]

\* LayoutMapping.alternatives
alternatives ==
    ( "title" :>
        << <<"T", "i", "t", "l", "e", " ", "S", "l", "i", "d", "e">>,
           <<"<je>", "<mok>", " ", "<seul>", "<ra>", "<i>", "<deu>">>,
           <<"<pyo>", "<ji>">> >> @@
      "title_content" :>
        << <<"T", "i", "t", "l", "e", " ", "a", "n", "d", " ", "C", "o",
             "n", "t", "e", "n", "t">>,
           <<"<je>", "<mok>", " ", "<mit>", " ", "<nae>", "<yong>">>,
           <<"<je>", "<mok>", "<gwa>", " ", "<nae>", "<yong>">> >> @@
      "section_header" :>
        << <<"S", "e", "c", "t", "i", "o", "n", " ", "H", "e", "a", "d",
             "e", "r">>,
           <<"<gu>", "<yeok>", " ", "<meo>", "<ri>", "<geul>">>,
           <<"<sek>", "<syeon>", " ", "<meo>", "<ri>", "<geul>">> >> @@
      "two_content" :>
        << <<"T", "w", "o", " ", "C", "o", "n", "t", "e", "n", "t">>,
           <<"<du>", " ", "<gae>", "<ui>", " ", "<kon>", "<ten>",
             "<cheu>">>,
           <<"2", "<dan>", " ", "<kon>", "<ten>", "<cheu>">> >> @@
      "comparison" :>
        << <<"C", "o", "m", "p", "a", "r", "i", "s", "o", "n">>,
           <<"<bi>", "<gyo>">>,
           <<"<bi>", "<gyo>", "<hyeong>">> >> @@
      "title_only" :>
        << <<"T", "i", "t", "l", "e", " ", "O", "n", "l", "y">>,
           <<"<je>", "<mok>", "<man>">>,
           <<"<je>", "<mok>", " ", "<jeon>", "<yong>">> >> @@
      "blank" :>
        << <<"B", "l", "a", "n", "k">>,
           <<"<bin>", " ", "<hwa>", "<myeon>">>,
           <<"<bin>", " ", "<seul>", "<ra>", "<i>", "<deu>">> >> @@
      "content_caption" :>
        << <<"C", "o", "n", "t", "e", "n", "t", " ", "w", "i", "t", "h",
             " ", "C", "a", "p", "t", "i", "o", "n">>,
           <<"<kaep>", "<syeon>", " ", "<it>", "<neun>", " ", "<kon>",
             "<ten>", "<cheu>">> >> )

\* _build_cache: a layout is its index in prs.slide_layouts; of two layouts
\* with one key the later one stays
CacheKey(name) == Lower(Strip(name))

build_cache(layouts) ==
    [key \in {CacheKey(layouts[i]) : i \in 1..Len(layouts)} |->
        Max({i \in 1..Len(layouts) : CacheKey(layouts[i]) = key}) - 1]

fallback_indices ==
    ( "title" :> 0 @@ "title_content" :> 1 @@ "section_header" :> 2 @@
      "two_content" :> 3 @@ "comparison" :> 4 @@ "title_only" :> 5 @@
      "blank" :> 6 @@ "content_caption" :> 7 )

\* what a call returns: a layout and the return statement that gave it (by
\* "name" in the loop, by "index", or the "first" layout), or the IndexError
\* it raises
Returned(layout, by) == [raised |-> FALSE, layout |-> layout, by |-> by]

RaisedIndexError == [raised |-> TRUE, layout |-> -1, by |-> "error"]

\* a fallback that leaves the IndexError of an index past the deck uncaught
LayoutAtUnguarded(layouts, idx) ==
    IF idx < Len(layouts) THEN Returned(idx, "index") ELSE RaisedIndexError

\* try: return slide_layouts[idx]  except IndexError: return slide_layouts[0]
LayoutAt(layouts, idx) ==
    IF idx < Len(layouts) THEN Returned(idx, "index")
    ELSE IF 0 < Len(layouts) THEN Returned(0, "first")
    ELSE RaisedIndexError

\* a fallback index whose default is the first layout
FallbackIndexFirst(layout_type) ==
    IF layout_type \in DOMAIN fallback_indices THEN fallback_indices[layout_type]
    ELSE 0

\* fallback_indices.get(layout_type, 1)
FallbackIndex(layout_type) ==
    IF layout_type \in DOMAIN fallback_indices THEN fallback_indices[layout_type]
    ELSE 1

\* the name loop: K holds the positions of the names the cache knows
\* (a loop that lets the last such name win)
LayoutByLastName(layouts, cache, layout_type, names, K) ==
    IF K # {} THEN Returned(cache[Lower(names[Max(K)])], "name")
    ELSE LayoutAt(layouts, FallbackIndex(layout_type))

LayoutByName(layouts, cache, layout_type, names, K) ==
    IF K # {} THEN Returned(cache[Lower(names[Min(K)])], "name")
    ELSE LayoutAt(layouts, FallbackIndex(layout_type))

AlternativesOf(layout_type) ==
    IF layout_type \in DOMAIN alternatives THEN alternatives[layout_type] ELSE <<>>

LayoutAmong(layouts, cache, layout_type, names) ==
    LayoutByName(layouts, cache, layout_type, names,
                 {k \in 1..Len(names) : Lower(names[k]) \in DOMAIN cache})

\* LayoutResolver.get_layout
get_layout(layouts, cache, layout_type) ==
    LayoutAmong(layouts, cache, layout_type, AlternativesOf(layout_type))

\* _add_content_slide: layout_map.get(layout_type, "title_content")
layout_map ==
    ( "image_only" :> "blank" @@ "image_content" :> "two_content" @@
      "code" :> "title_content" @@ "title_content" :> "title_content" )

ResolvedLayout(layout_type) ==
    IF layout_type \in DOMAIN layout_map THEN layout_map[layout_type]
    ELSE "title_content"

\* settings.OUTPUT_DIR
OUTPUT_DIR == <<".", "/", "o", "u", "t", "p", "u", "t">>

\* c.isalnum() or c in (' ', '-', '_')
IsSafeChar(c) ==
    c \in Digits \cup LowerLetters \cup UpperLetters \cup Hangul
            \cup {" ", "-", "_"}

\* safe_title[:50] if safe_title else "presentation"
SafeOrDefault(kept) ==
    IF kept = <<>>
    THEN <<"p", "r", "e", "s", "e", "n", "t", "a", "t", "i", "o", "n">>
    ELSE SubSeq(kept, 1, Min({50, Len(kept)}))

safe_title(title) == SafeOrDefault(Strip(SelectSeq(title, IsSafeChar)))

\* _generate_output_path: os.path.join(OUTPUT_DIR, f"{safe_title}_{unique_id}.pptx")
generate_output_path(title, unique_id) ==
    OUTPUT_DIR \o <<"/">> \o safe_title(title) \o <<"_">> \o unique_id
        \o <<".", "p", "p", "t", "x">>

\* the files, had generate kept the deck in memory
FilesUntouched(files, output_path) == files

\* os.makedirs(OUTPUT_DIR, exist_ok=True), then prs.save(output_path)
SavedFiles(files, output_path) == files \cup {OUTPUT_DIR, output_path}

\* generate has not returned
NotGenerated == [returned |-> FALSE, raised |-> "", path |-> <<>>]

\* return output_path
ReturnedPath(output_path) == [returned |-> TRUE, raised |-> "", path |-> output_path]

\* `for c in title` of a title that is None
RaisedTypeError == [returned |-> FALSE, raised |-> "TypeError", path |-> <<>>]

(***************************************************************************)
(* template_analyzer.py: ColorPalette, FontSettings, TemplateAnalyzer      *)
(***************************************************************************)
VARIABLES
    extracted_colors,  \* self.extracted_colors: "#RRGGBB" strings as collected
    extracted_fonts,   \* self.extracted_fonts: font names as collected
    analyze_result,    \* the last call of analyze: the error or the style
    analyze_call,      \* the last call of analyze: the file it was given
    template_files     \* the decks stored as .pptx files, by path

\* a colour or a font name that a shape or run does not carry
NoColor == <<>>

NoFont == <<>>

HexDigits ==
    <<"0", "1", "2", "3", "4", "5", "6", "7", "8", "9",
      "A", "B", "C", "D", "E", "F">>

\* "%02X" of one channel
Hex2(n) == <<HexDigits[(n \div 16) + 1], HexDigits[(n % 16) + 1]>>

\* f"#{rgb}" of an RGBColor
ColorHex(rgb) == <<"#">> \o Hex2(rgb[1]) \o Hex2(rgb[2]) \o Hex2(rgb[3])

\* hex_color.lstrip("#")
LStripHash(hex_color) ==
    SubSeq(hex_color, RunEnd(hex_color, {"#"}, 1) + 1, Len(hex_color))

\* int(c, 16) of one digit, in either case
HexValueOf ==
    [c \in {HexDigits[v] : v \in 1..16} \cup {LowerOf(HexDigits[v]) : v \in 1..16}
        |-> (CHOOSE v \in 1..16 : c \in {HexDigits[v], LowerOf(HexDigits[v])}) - 1]

IsHexDigit(c) == c \in DOMAIN HexValueOf

HexValue(c) == HexValueOf[c]

\* int(digits, 16) of one or two hexadecimal digits
HexInt(digits) ==
    IF Len(digits) = 1 THEN HexValue(digits[1])
    ELSE 16 * HexValue(digits[1]) + HexValue(digits[2])

\* int(digits, 16) raises ValueError
HexFails(digits) ==
    digits = <<>> \/ \E i \in 1..Len(digits) : ~IsHexDigit(digits[i])

\* r * 299 + g * 587 + b * 114 of the channels of a stripped string
WeightedSum(h) ==
    HexInt(Slice(h, 1, 2)) * 299 + HexInt(Slice(h, 3, 4)) * 587
        + HexInt(Slice(h, 5, 6)) * 114

BrightnessOf(h) ==
    IF HexFails(Slice(h, 1, 2)) \/ HexFails(Slice(h, 3, 4))
           \/ HexFails(Slice(h, 5, 6))
    THEN 128 * 1000
    ELSE WeightedSum(h)

\* _get_color_brightness, in thousandths
get_color_brightness(hex_color) == BrightnessOf(LStripHash(hex_color))

\* the buckets of _create_color_palette
IsDark(color) == get_color_brightness(color) < 85 * 1000

IsLight(color) ==
    ~(get_color_brightness(color) < 85 * 1000)
        /\ get_color_brightness(color) > 200 * 1000

IsMid(color) == ~IsDark(color) /\ ~IsLight(color)

White == <<"#", "F", "F", "F", "F", "F", "F">>

\* ColorPalette()
ColorPalette ==
    [primary |-> <<"#", "1", "E", "3", "A", "8", "A">>,
     secondary |-> <<"#", "6", "4", "7", "4", "8", "B">>,
     accent |-> <<"#", "3", "B", "8", "2", "F", "6">>,
     background |-> White,
     text_dark |-> <<"#", "1", "E", "2", "9", "3", "B">>,
     text_light |-> White,
     additional_colors |-> <<>>]

\* the strings of one bucket ordered from the darkest; equal brightness keeps
\* the order of collection
DarkerBefore(bucket, i) ==
    Cardinality({j \in 1..Len(bucket) :
        \/ get_color_brightness(bucket[j]) < get_color_brightness(bucket[i])
        \/ /\ get_color_brightness(bucket[j]) = get_color_brightness(bucket[i])
           /\ j < i})

DarkestFirst(bucket) ==
    [r \in 1..Len(bucket) |->
        bucket[CHOOSE i \in 1..Len(bucket) : DarkerBefore(bucket, i) = r - 1]]

\* the roles of a palette from the three buckets
PaletteOf(collected, dark_colors, mid_colors, light_colors) ==
    [primary |-> IF dark_colors # <<>> THEN dark_colors[1]
                 ELSE ColorPalette.primary,
     text_dark |-> IF dark_colors # <<>> THEN dark_colors[1]
                   ELSE ColorPalette.text_dark,
     secondary |-> IF Len(dark_colors) > 1 THEN dark_colors[2]
                   ELSE ColorPalette.secondary,
     accent |-> IF mid_colors # <<>> THEN mid_colors[1]
                ELSE ColorPalette.accent,
     background |-> IF light_colors # <<>> /\ light_colors[1] # White
                    THEN light_colors[1]
                    ELSE ColorPalette.background,
     text_light |-> ColorPalette.text_light,
     additional_colors |-> SubSeq(collected, 1, Min({10, Len(collected)}))]

\* a palette that takes the darkest colour of the dark bucket first
BucketsSortedByBrightness(collected) ==
    PaletteOf(collected, DarkestFirst(SelectSeq(collected, IsDark)),
              SelectSeq(collected, IsMid), SelectSeq(collected, IsLight))

\* the buckets in the order of collection
Buckets(collected) ==
    PaletteOf(collected, SelectSeq(collected, IsDark),
              SelectSeq(collected, IsMid), SelectSeq(collected, IsLight))

\* _create_color_palette
create_color_palette(collected) ==
    IF collected = <<>> THEN ColorPalette ELSE Buckets(collected)

korean_indicators ==
    << <<"<malk>", "<eun>">>, <<"<go>", "<dik>">>, <<"<gul>", "<rim>">>,
       <<"<dot>", "<um>">>, <<"<ba>", "<tang>">>, <<"<na>", "<num>">>,
       <<"M", "a", "l", "g", "u", "n">>, <<"G", "u", "l", "i", "m">>,
       <<"D", "o", "t", "u", "m">>, <<"B", "a", "t", "a", "n", "g">>,
       <<"N", "a", "n", "u", "m">> >>

\* _is_korean_font
is_korean_font(font_name) == ContainsAny(font_name, korean_indicators)

IsEnglishFont(font_name) == ~is_korean_font(font_name)

MalgunGothic == <<"<malk>", "<eun>", " ", "<go>", "<dik>">>

\* FontSettings()
FontSettings ==
    [title_font |-> MalgunGothic,
     body_font |-> MalgunGothic,
     english_font |-> <<"A", "r", "i", "a", "l">>,
     title_size |-> 44, subtitle_size |-> 28, body_size |-> 18,
     small_size |-> 14]

FontsOf(korean_fonts, english_fonts) ==
    [FontSettings EXCEPT
        !.title_font = IF korean_fonts # <<>> THEN korean_fonts[1] ELSE @,
        !.body_font = IF korean_fonts # <<>> THEN korean_fonts[1] ELSE @,
        !.english_font = IF english_fonts # <<>> THEN english_fonts[1] ELSE @]

\* _create_font_settings
create_font_settings(font_names) ==
    FontsOf(SelectSeq(font_names, is_korean_font),
            SelectSeq(font_names, IsEnglishFont))

\* if x not in list: list.append(x)
AppendNew(list, x) == IF x \in Range(list) THEN list ELSE Append(list, x)

\* the colour of a fill, a line or a run, when it has an RGB colour
WithColor(collected, rgb) ==
    IF rgb = NoColor THEN collected ELSE AppendNew(collected, ColorHex(rgb))

\* the runs of a text frame: the font name, then the colour, of each run
RECURSIVE RunFonts(_, _)
RunFonts(font_names, runs) ==
    IF runs = <<>> THEN font_names
    ELSE RunFonts(IF Head(runs).name = NoFont THEN font_names
                  ELSE AppendNew(font_names, Head(runs).name),
                  Tail(runs))

RECURSIVE RunColors(_, _)
RunColors(collected, runs) ==
    IF runs = <<>> THEN collected
    ELSE RunColors(WithColor(collected, Head(runs).color), Tail(runs))

\* _extract_shape_styles: the fill, the line, then the runs
ShapeColors(collected, shape) ==
    RunColors(WithColor(WithColor(collected, shape.fill), shape.line),
              shape.runs)

\* _analyze_slides: every shape of every slide, in order
RECURSIVE SlidesColors(_, _)
SlidesColors(collected, shapes) ==
    IF shapes = <<>> THEN collected
    ELSE SlidesColors(ShapeColors(collected, Head(shapes)), Tail(shapes))

RECURSIVE SlidesFonts(_, _)
SlidesFonts(font_names, shapes) ==
    IF shapes = <<>> THEN font_names
    ELSE SlidesFonts(RunFonts(font_names, Head(shapes).runs), Tail(shapes))

\* Length.inches is emu / 914400: n hundredths of an inch, in EMU
Hundredths(n) == n * 9144

\* prs.slide_width and prs.slide_height of the templates: 13.33 by 7.5 inch
slide_width == Hundredths(1333)

slide_height == Hundredths(750)

\* the margins dict _analyze_margins starts with, lengths in EMU
DefaultMargins ==
    [left |-> Hundredths(50), right |-> Hundredths(50),
     top |-> Hundredths(50), bottom |-> Hundredths(50),
     header_height |-> Hundredths(15),
     use_header_bar |-> FALSE, use_footer |-> FALSE]

\* top < 0.3 and (shape.height.inches if shape.height else 0) < 0.3; a
\* length that is None reads as 0
IsThinTopBar(shape) ==
    shape.top < Hundredths(30) /\ shape.height < Hundredths(30)

\* shape.height.inches if shape.height else 0.15
HeaderHeightOf(shape) ==
    IF shape.height # 0 THEN shape.height ELSE Hundredths(15)

\* the extents and the header bar before the first shape is read
NothingMeasured ==
    [min_left |-> slide_width, max_right |-> 0,
     min_top |-> slide_height, max_bottom |-> 0,
     use_header_bar |-> FALSE, header_height |-> Hundredths(15)]

\* one pass of the loop of _analyze_margins; a shape whose left is None or
\* 0 fails `hasattr(shape, "left") and shape.left` and is passed over
MeasureShape(acc, shape) ==
    IF shape.left = 0 THEN acc
    ELSE [min_left |-> Min({acc.min_left, shape.left}),
          max_right |-> Max({acc.max_right, shape.left + shape.width}),
          min_top |-> Min({acc.min_top, shape.top}),
          max_bottom |-> Max({acc.max_bottom, shape.top + shape.height}),
          use_header_bar |-> acc.use_header_bar \/ IsThinTopBar(shape),
          header_height |-> IF IsThinTopBar(shape) THEN HeaderHeightOf(shape)
                            ELSE acc.header_height]

RECURSIVE MeasureShapes(_, _)
MeasureShapes(acc, shapes) ==
    IF shapes = <<>> THEN acc
    ELSE MeasureShapes(MeasureShape(acc, Head(shapes)), Tail(shapes))

\* the margins computed from the extents
MarginsOf(m) ==
    [left |-> IF m.min_left < slide_width
              THEN Max({Hundredths(25), m.min_left}) ELSE DefaultMargins.left,
     right |-> IF m.max_right > 0
               THEN Max({Hundredths(25), slide_width - m.max_right})
               ELSE DefaultMargins.right,
     top |-> IF m.min_top < slide_height
             THEN Max({Hundredths(25), m.min_top}) ELSE DefaultMargins.top,
     bottom |-> IF m.max_bottom > 0
                THEN Max({Hundredths(25), slide_height - m.max_bottom})
                ELSE DefaultMargins.bottom,
     header_height |-> m.header_height,
     use_header_bar |-> m.use_header_bar,
     use_footer |-> FALSE]

\* _analyze_margins: a deck is the sequence of its slides, a slide the
\* sequence of its shapes; only prs.slides[0] is read
analyze_margins(deck) ==
    IF deck = <<>> THEN DefaultMargins
    ELSE MarginsOf(MeasureShapes(NothingMeasured, deck[1]))

\* the shapes of all slides in the order _analyze_slides visits them
RECURSIVE AllShapes(_)
AllShapes(deck) ==
    IF deck = <<>> THEN <<>> ELSE Head(deck) \o AllShapes(Tail(deck))

\* what analyze returns: the style, or the exception that left it
TemplateStyle(collected, font_names, margins) ==
    [raised |-> "",
     colors |-> create_color_palette(collected),
     fonts |-> create_font_settings(font_names),
     margins |-> margins]

\* the style of a deck without slides
StyleOf(collected, font_names) ==
    TemplateStyle(collected, font_names, DefaultMargins)

\* an exception leaves analyze: no style is returned
RaisedBy(exception) ==
    [raised |-> exception, colors |-> <<>>, fonts |-> <<>>, margins |-> <<>>]

\* the file at pptx_path: "missing", "unreadable" or a "deck"
CallOn(file) == [file |-> file]

(***************************************************************************)
(* ppt_designer.py: PPTDesigner.design and the slides it adds              *)
(***************************************************************************)
VARIABLES
    design_content,  \* the PresentationContent given to design
    designer_prs     \* self.prs: None, or the slides of the deck, in order

\* x or default
OrDefault(x, default) == IF Truthy(x) THEN x ELSE default

SlideDefault == <<"<seul>", "<ra>", "<i>", "<deu>">>

SectionDefault == <<"<sek>", "<syeon>">>

TocTitle == <<"<mok>", "<cha>">>

ClosingTitle == <<"<gam>", "<sa>", "<hap>", "<ni>", "<da>">>

\* s.split(sep)[0]
BeforeAt(s, k) == IF k = 0 THEN s ELSE SubSeq(s, 1, k - 1)

Before(s, sep) == BeforeAt(s, FindFrom(s, sep, 1))

\* _add_toc_slide: slide_title.split(" (")[0].split(" - ")[0]
base_title(title) ==
    Before(Before(OrDefault(title, SlideDefault), <<" ", "(">>),
           <<" ", "-", " ">>)

BaseTitles(slides) == [i \in 1..Len(slides) |-> base_title(slides[i].title)]

\* if base_title not in unique_titles: unique_titles.append(base_title)
FirstOccurrences(titles) ==
    {i \in 1..Len(titles) : \A j \in 1..(i - 1) : titles[j] # titles[i]}

KeptAt(titles, F) ==
    [r \in 1..Cardinality(F) |->
        titles[CHOOSE i \in F : Cardinality({j \in F : j < i}) = r - 1]]

UniqueTitles(titles) == KeptAt(titles, FirstOccurrences(titles))

\* unique_titles[:8]
FirstEight(titles) == SubSeq(titles, 1, Min({8, Len(titles)}))

\* a slide of the deck: what it is, its title text and its listed items
DeckSlide(kind, title, items) == [kind |-> kind, title |-> title, items |-> items]

\* _add_title_slide
add_title_slide(title, subtitle) ==
    DeckSlide("title", OrDefault(title, DefaultTitle),
              IF Truthy(subtitle) THEN <<subtitle>> ELSE <<>>)

\* p.text = title or "슬라이드", of each listed title
TocItems(titles) ==
    [i \in 1..Len(titles) |-> OrDefault(titles[i], SlideDefault)]

\* _add_toc_slide
add_toc_slide(slides) ==
    DeckSlide("toc", TocTitle,
              TocItems(FirstEight(UniqueTitles(BaseTitles(slides)))))

\* _add_section_slide, _add_metrics_slide, _add_table_slide, _add_bullet_slide:
\* each adds one slide, also when it returns early
add_section_slide(content) ==
    DeckSlide("section", OrDefault(content.title, SectionDefault), <<>>)

add_metrics_slide(content) ==
    DeckSlide("metrics", OrDefault(content.title, SlideDefault), <<>>)

add_table_slide(content) ==
    DeckSlide("table", OrDefault(content.title, SlideDefault), <<>>)

add_bullet_slide(content) ==
    DeckSlide("bullet", OrDefault(content.title, SlideDefault), <<>>)

\* _add_content_slide
add_content_slide(content) ==
    IF content.layout_hint = "title_only" THEN add_section_slide(content)
    ELSE IF content.layout_hint = "metrics" THEN add_metrics_slide(content)
    ELSE IF content.layout_hint = "table" THEN add_table_slide(content)
    ELSE add_bullet_slide(content)

\* _add_closing_slide
add_closing_slide == DeckSlide("closing", ClosingTitle, <<>>)

\* a contents slide from three slides on
TocSlidesFromThree(slides) ==
    IF Len(slides) >= 3 THEN <<add_toc_slide(slides)>> ELSE <<>>

\* if len(content.slides) > 3: self._add_toc_slide(content.slides)
TocSlides(slides) ==
    IF Len(slides) > 3 THEN <<add_toc_slide(slides)>> ELSE <<>>

ContentSlides(slides) ==
    [i \in 1..Len(slides) |-> add_content_slide(slides[i])]

\* design: self.prs is a new deck with these slides
design(content) ==
    <<add_title_slide(content.title, content.subtitle)>>
        \o TocSlides(content.slides)
        \o ContentSlides(content.slides)
        \o <<add_closing_slide>>

(***************************************************************************)
(* State                                                                   *)
(***************************************************************************)
VARIABLES
    md_content,        \* the Markdown text handed to MarkdownParser
    parser_pc,         \* "ready" before parse returns, "parsed" after
    parser_result,     \* what MarkdownParser.parse returned
    metadata_result,   \* what MarkdownParser.extract_metadata returned
    mistune_result,    \* what MarkdownParser(use_legacy=False).parse returned
    documents,         \* the rows of the documents table, by id
    requests,          \* the calls of generate_from_text and
                       \* generate_from_file: where each stands, its document
    templates          \* the rows of the templates table

ParserVars ==
    <<md_content, parser_pc, parser_result, metadata_result, mistune_result>>

SummarizerVars == <<parsed_data, self_parsed_content, presentation, summaries>>

FitVars == <<fit_text, fit_chars_per_line, fit_max_lines, fit_result>>

LayoutVars ==
    <<slide_layouts, layout_cache, layout_call, prs_slides, generator_pc,
      output_files, generate_result>>

AnalyzerVars ==
    <<extracted_colors, extracted_fonts, analyze_result, analyze_call,
      template_files>>

DesignVars == <<design_content, designer_prs>>

RouterVars == <<documents, requests, templates>>

vars ==
    <<ParserVars, SummarizerVars, FitVars, LayoutVars, AnalyzerVars,
      DesignVars, RouterVars>>

\* the variables of the other components, which a component leaves alone
NotParserVars ==
    <<SummarizerVars, FitVars, LayoutVars, AnalyzerVars,
      DesignVars,
      RouterVars>>

NotSummarizerVars ==
    <<ParserVars, FitVars, LayoutVars, AnalyzerVars,
      DesignVars,
      RouterVars>>

NotFitVars ==
    <<ParserVars, SummarizerVars, LayoutVars, AnalyzerVars,
      DesignVars,
      RouterVars>>

NotLayoutVars ==
    <<ParserVars, SummarizerVars, FitVars, AnalyzerVars,
      DesignVars,
      RouterVars>>

NotAnalyzerVars ==
    <<ParserVars, SummarizerVars, FitVars, LayoutVars, DesignVars,
      RouterVars>>

NotDesignVars ==
    <<ParserVars, SummarizerVars, FitVars, LayoutVars, AnalyzerVars,
      RouterVars>>

NotRouterVars ==
    <<ParserVars, SummarizerVars, FitVars, LayoutVars, AnalyzerVars,
      DesignVars>>

\* no request yet and no template
RoutersIdle ==
    /\ documents = <<>>
    /\ requests = <<>>
    /\ templates = {}

\* no designer yet
DesignIdle == design_content = NoneRec /\ designer_prs = None

NoStyle == [raised |-> "", colors |-> <<>>, fonts |-> <<>>, margins |-> <<>>]

\* no analyzer yet
AnalyzerIdle ==
    /\ extracted_colors = <<>>
    /\ extracted_fonts = <<>>
    /\ analyze_result = NoStyle
    /\ analyze_call = CallOn("")
    /\ template_files = <<>>

NoCall == [role |-> "", raised |-> FALSE, layout |-> -1, by |-> ""]

LayoutIdle ==
    /\ slide_layouts = <<>>
    /\ layout_cache = <<>>
    /\ layout_call = NoCall
    /\ prs_slides = <<>>
    /\ generator_pc = "idle"
    /\ output_files = {}
    /\ generate_result = NotGenerated

FitIdle ==
    /\ fit_text = <<>>
    /\ fit_chars_per_line = 0
    /\ fit_max_lines = 0
    /\ fit_result = None

(***************************************************************************)
(* md_parser.py: MarkdownParser(use_legacy=True), the default              *)
(***************************************************************************)
MaxLines == 4

\* the physical lines the input texts are made of
LineVocab ==
    { <<"#", " ", "T">>,
      <<"#">>,
      <<"#", "#", " ", "S">>,
      <<"-", "-", "-">>,
      <<"a", ":", " ", "b">>,
      <<"|", " ", "a", " ", "|", " ", "b", " ", "|">>,
      <<"|", "-", "-", "-", "|", "-", "-", "-", "|">>,
      <<"|", " ", "c", " ", "|">>,
      <<"-", " ", "x">>,
      <<>> }

Texts ==
    {Join(ls, <<NL>>) : ls \in UNION {[1..n -> LineVocab] : n \in 0..MaxLines}}

ParserInit ==
    /\ md_content \in Texts
    /\ parser_pc = "ready"
    /\ parser_result = NoneRec
    /\ metadata_result = [returned |-> FALSE, value |-> <<>>]
    /\ mistune_result = NoneRec

ParserIdle ==
    /\ md_content = <<>>
    /\ parser_pc = "idle"
    /\ parser_result = NoneRec
    /\ metadata_result = [returned |-> FALSE, value |-> <<>>]
    /\ mistune_result = NoneRec

\* MarkdownParser.parse
Parse ==
    /\ parser_pc = "ready"
    /\ parser_result' = parse(md_content)
    /\ parser_pc' = "parsed"
    /\ UNCHANGED <<md_content, metadata_result, mistune_result>>
    /\ UNCHANGED NotParserVars

\* MarkdownParser.extract_metadata
ExtractMetadata ==
    /\ parser_pc \in {"ready", "parsed"}
    /\ ~metadata_result.returned
    /\ metadata_result' = [returned |-> TRUE, value |-> extract_metadata(md_content)]
    /\ UNCHANGED <<md_content, parser_pc, parser_result, mistune_result>>
    /\ UNCHANGED NotParserVars

ParserNext == Parse \/ ExtractMetadata

SummarizerIdle ==
    /\ parsed_data = NoneRec
    /\ self_parsed_content = NoneRec
    /\ presentation = NoneRec
    /\ summaries = <<>>

\* the parser alone: the other components stay as constructed
InitParser ==
    ParserInit /\ SummarizerIdle /\ FitIdle /\ LayoutIdle /\ AnalyzerIdle
        /\ DesignIdle
        /\ RoutersIdle

SpecParser == InitParser /\ [][ParserNext]_vars

(***************************************************************************)
(* Claims about the parser                                                 *)
(***************************************************************************)
AllTables(doc) ==
    UNION {Range(doc.slides[i].tables) : i \in 1..Len(doc.slides)}

IsTableRowLine(l) == StartsWith(l, <<"|">>) /\ EndsWith(l, <<"|">>)

\* a text that is one well-formed pipe table: a header row, the separator
\* row, then data rows
IsPipeTable(lines) ==
    /\ Len(lines) >= 3
    /\ \A i \in 1..Len(lines) : IsTableRowLine(lines[i])
    /\ \A i \in 1..Len(lines) : IsSeparatorCells(TableCells(lines[i])) <=> i = 2

\* C1: in every document parse returns for a well-formed pipe table, every
\* row of the table has exactly len(headers) cells (a source row with another
\* cell count is dropped).
C1_RowsMatchHeaders ==
    (parser_pc = "parsed" /\ IsPipeTable(Split(md_content, NL))) =>
        \A t \in AllTables(parser_result) :
            \A r \in 1..Len(t.rows) : Len(t.rows[r]) = Len(t.headers)

Dashes == <<"-", "-", "-">>

\* the index of the line that closes a leading front-matter block, 0 if none
FrontMatterClose(lines) ==
    LET J == {j \in 2..Len(lines) : lines[j] = Dashes}
    IN  IF lines[1] = Dashes /\ J # {} THEN Min(J) ELSE 0

AllContentTexts(doc) ==
    UNION {{doc.slides[i].content[k].text : k \in 1..Len(doc.slides[i].content)} :
               i \in 1..Len(doc.slides)}

\* C2: parse returns a metadata mapping that holds every "key: value" line of
\* a leading front-matter block of such lines closed by "---", and no line of
\* the block is a content item of a slide unless the body holds the same
\* line; without the closing "---" the metadata is empty.
C2_FrontMatterInMetadata ==
    parser_pc = "parsed" =>
        LET lines == Split(md_content, NL)
            close == FrontMatterClose(lines)
            meta == parser_result.metadata
            body == {Strip(lines[i]) : i \in (close + 1)..Len(lines)}
        IN  IF close = 0 THEN meta = <<>>
            ELSE IF \E i \in 2..(close - 1) : IndexFrom(lines[i], ":", 1) = 0
            THEN TRUE
            ELSE \A i \in 2..(close - 1) :
                    LET colon == IndexFrom(lines[i], ":", 1)
                        key == Strip(Slice(lines[i], 1, colon - 1))
                        value == Strip(Slice(lines[i], colon + 1, Len(lines[i])))
                    IN  /\ colon # 0 =>
                            key \in DOMAIN meta /\ meta[key] = value
                        /\ Strip(lines[i]) \notin body =>
                            Strip(lines[i]) \notin AllContentTexts(parser_result)

\* a level-1 heading line, "# <text>" with a text
IsH1Line(l) ==
    Len(l) >= 3 /\ l[1] = "#" /\ l[2] = " " /\ Strip(Slice(l, 3, Len(l))) # <<>>

\* C3: with exactly one level-1 heading line the title is its trimmed text,
\* wherever the line stands; with none the title is None.
C3_TitleIsTheH1 ==
    parser_pc = "parsed" =>
        LET lines == Split(md_content, NL)
            H == {i \in 1..Len(lines) : IsH1Line(lines[i])}
        IN  /\ Cardinality(H) = 1 =>
                \A i \in H :
                    parser_result.title = Strip(Slice(lines[i], 3, Len(lines[i])))
            /\ H = {} => parser_result.title = None


(***************************************************************************)
(* content_summarizer.py: ContentSummarizer().summarize(parsed_data)       *)
(***************************************************************************)
MaxSections == 2

ManyBullets == 66

MaxCalls == 2

\* a slide dict as the parser builds it
SlideData(title, content, tables) ==
    [title |-> title, content |-> content, images |-> <<>>,
     code_blocks |-> <<>>, tables |-> tables,
     layout |-> SectionLayout([content |-> content, images |-> <<>>,
                               code_blocks |-> <<>>, tables |-> tables])]

\* n numbered bullets
Bullets(n) == [k \in 1..n |-> Item("bullet", <<"b">> \o ToDecimal(k))]

Costs(n) ==
    [k \in 1..n |->
        Item("text", <<"<chong>", "<bi>", "<yong>", " ">> \o ToDecimal(k) \o <<"<won>">>)]

LongText == [j \in 1..(MAX_BULLET_LENGTH + 1) |-> "y"]

WideTable(n) ==
    [headers |-> << <<"h">>, <<"i">> >>,
     rows |-> [k \in 1..n |-> IF k = 2 THEN << <<"r">> >>
                              ELSE << <<"r">>, ToDecimal(k) >>]]

SectionVocab ==
    { SlideData(<<"<gae>", "<yo>">>, Bullets(ManyBullets), <<>>),
      SlideData(<<"S">>, Bullets(ManyBullets), <<>>),
      SlideData(<<"<ye>", "<san>">>,
                Costs(MAX_BULLETS_PER_SLIDE)
                \o <<Item("text", <<"<gi>", "<gan>", " ", "3", "<gae>", "<wol>">>),
                     Item("text", <<"<tim>", " ", "4", "<myeong>">>)>>
                \o Bullets(MAX_BULLETS_PER_SLIDE - 1), <<>>),
      SlideData(<<"T">>, Bullets(MAX_BULLETS_PER_SLIDE + 1),
                <<WideTable(MAX_TABLE_ROWS + 1)>>),
      SlideData(<<"<bu>", "<rok>", " ", "A">>, Bullets(1), <<WideTable(1)>>),
      SlideData(None, <<Item("subheading", <<"h">>)>>, <<>>),
      SlideData(<<"L">>,
                <<Item("text", <<"a", " ", "|", " ", "b">>),
                  Item("text", <<"c", " ", "|", " ", "d">>),
                  Item("text", <<"e", " ", "|">>),
                  Item("text", LongText),
                  Item("numbered", <<"k", ":", " ">> \o LongText),
                  Item("bullet", <<"*", "*", "n", "*", "*", " ">> \o LongText),
                  Item("text", <<"p", "l", "a", "i", "n">>)>>, <<>>) }

\* title and metadata of the document
Heads ==
    { [title |-> None, metadata |-> <<>>],
      [title |-> <<"T">>, metadata |-> (Key_author :> <<"m", "e">>)],
      [title |-> <<"T">>,
       metadata |-> (Key_author :> <<"m", "e">>) @@ (Key_date :> <<"d", "1">>)] }

Docs ==
    {[title |-> h.title, slides |-> slides, metadata |-> h.metadata] :
        h \in Heads,
        slides \in UNION {[1..n -> SectionVocab] : n \in 0..MaxSections}}

SummarizerInit ==
    /\ parsed_data \in Docs
    /\ self_parsed_content = NoneRec
    /\ presentation = NoneRec
    /\ summaries = <<>>

\* summarizer.summarize(parsed_data)
Summarize ==
    /\ Len(summaries) < MaxCalls
    /\ self_parsed_content' = parsed_data
    /\ presentation' = summarize(parsed_data)
    /\ summaries' = Append(summaries, presentation')
    /\ UNCHANGED parsed_data
    /\ UNCHANGED NotSummarizerVars

\* summarizer = ContentSummarizer()
NewSummarizer ==
    /\ self_parsed_content # NoneRec
    /\ self_parsed_content' = NoneRec
    /\ UNCHANGED <<parsed_data, presentation, summaries>>
    /\ UNCHANGED NotSummarizerVars

SummarizerNext == Summarize \/ NewSummarizer

\* the summarizer alone
InitSummarizer ==
    SummarizerInit /\ ParserIdle /\ FitIdle /\ LayoutIdle /\ AnalyzerIdle
        /\ DesignIdle
        /\ RoutersIdle

SpecSummarizer == InitSummarizer /\ [][SummarizerNext]_vars

(***************************************************************************)
(* Claims about the summarizer                                             *)
(***************************************************************************)
SlideWithinBounds(slide) ==
    /\ Len(slide.bullets) <= MAX_BULLETS_PER_SLIDE
    /\ Len(slide.key_metrics) <= 4
    /\ slide.table_data # NoneRec => Len(slide.table_data.rows) <= MAX_TABLE_ROWS

\* C4: whatever the input, what summarize returns has at most 15 slides, and
\* each slide has at most 5 bullets, at most 4 key metrics and a table of at
\* most 6 rows.
C4_SummaryWithinBounds ==
    presentation # NoneRec =>
        /\ Len(presentation.slides) <= MAX_SLIDES
        /\ \A i \in 1..Len(presentation.slides) :
               SlideWithinBounds(presentation.slides[i])

\* summarize has cut a deck of more than 15 slides; a slide with a full set
\* of bullets and a table cut to 6 rows are among those kept
C4_Witness ==
    /\ presentation # NoneRec
    /\ Len(ExtendSlides(<<>>, parsed_data.slides)) > MAX_SLIDES
    /\ Len(presentation.slides) = MAX_SLIDES
    /\ \E i \in 1..MAX_SLIDES :
           Len(presentation.slides[i].bullets) = MAX_BULLETS_PER_SLIDE
    /\ \E i \in 1..MAX_SLIDES :
           /\ presentation.slides[i].table_data # NoneRec
           /\ Len(presentation.slides[i].table_data.rows) = MAX_TABLE_ROWS

MaxTextLen == 7

MaxBudget == 4

MaxCap == 3

FitChars == {"a", ".", " "}

FitTexts == UNION {[1..n -> FitChars] : n \in 0..MaxTextLen}

FitInit ==
    /\ fit_text \in FitTexts
    /\ fit_chars_per_line \in 1..MaxBudget
    /\ fit_max_lines \in 1..MaxCap
    /\ fit_result = None

\* self._limit_text_lines(text, chars_per_line, max_lines)
LimitTextLines ==
    /\ fit_result = None
    /\ fit_result' = limit_text_lines(fit_text, fit_chars_per_line, fit_max_lines)
    /\ UNCHANGED <<fit_text, fit_chars_per_line, fit_max_lines>>
    /\ UNCHANGED NotFitVars

FitNext == LimitTextLines

\* the text fitting rule alone
InitFit ==
    FitInit /\ ParserIdle /\ SummarizerIdle /\ LayoutIdle /\ AnalyzerIdle
        /\ DesignIdle
        /\ RoutersIdle

SpecTextFit == InitFit /\ [][FitNext]_vars

(***************************************************************************)
(* Claims about the text fitting rule                                      *)
(***************************************************************************)
\* the physical lines of a string
PhysicalLines(s) == IF s = <<>> THEN 0 ELSE Len(Split(s, NL))

\* s is some text followed by an appended "..."; the text does not end in
\* whitespace and its words are the first k words of the input, with k short
\* of all of them
CutShort(s, words) ==
    /\ Len(s) > 3
    /\ EndsWith(s, <<".", ".", ".">>)
    /\ ~IsSpace(s[Len(s) - 3])
    /\ \E k \in 1..(Len(words) - 1) :
           SplitWords(Slice(s, 1, Len(s) - 3)) = SubSeq(words, 1, k)

\* C5: for a text of at least one word, a budget >= 1 and a cap >= 1, the
\* result has at most cap physical lines; either it holds every word of the
\* input and nothing else, or it holds a proper prefix of the words followed
\* by "..." (so the ellipsis is there exactly when a word was left out, and a
\* pending line that would be line cap + 1 is left out, not appended).
C5_FitWithinCap ==
    (fit_result # None /\ SplitWords(fit_text) # <<>>) =>
        /\ PhysicalLines(fit_result) <= fit_max_lines
        /\ PhysicalLines(fit_result) >= 1
        /\ (SplitWords(fit_result) = SplitWords(fit_text))
           # CutShort(fit_result, SplitWords(fit_text))

\* the cap is reached on the second line or later and the pending last line
\* was left out: the result is cut short, with exactly cap lines
C5_Witness ==
    /\ fit_result # None
    /\ fit_max_lines >= 2
    /\ PhysicalLines(fit_result) = fit_max_lines
    /\ CutShort(fit_result, SplitWords(fit_text))
    /\ LastLine(PackWords(SplitWords(fit_text), fit_chars_per_line,
                          fit_max_lines, <<>>, <<>>), fit_max_lines)
       # LastLineAlways(PackWords(SplitWords(fit_text), fit_chars_per_line,
                                   fit_max_lines, <<>>, <<>>), fit_max_lines)


(***************************************************************************)
(* ppt_generator.py: a LayoutResolver over a deck, and the generator's     *)
(* slides                                                                  *)
(***************************************************************************)
MaxLayouts == 3

MaxSlides == 1

LayoutNames ==
    { <<"T", "i", "t", "l", "e", " ", "S", "l", "i", "d", "e">>,
      <<" ", "T", "I", "T", "L", "E", " ", "S", "L", "I", "D", "E", " ">>,
      <<"<pyo>", "<ji>">>,
      <<"t", "i", "t", "l", "e", " ", "a", "n", "d", " ", "c", "o", "n", "t",
        "e", "n", "t">>,
      <<"C", "u", "s", "t", "o", "m">> }

Decks == UNION {[1..n -> LayoutNames] : n \in 0..MaxLayouts}

\* the roles a caller asks for: those of the tables and one of neither
Roles == DOMAIN fallback_indices \cup {"hero"}

\* the layout types of slide dicts: those the parser assigns
LayoutTypes == {"image_only", "image_content", "code", "table", "title_content"}

\* LayoutResolver(prs, mapping) on a deck: the cache is built; importing
\* app.config has made the output directory
LayoutInit ==
    /\ slide_layouts \in Decks
    /\ layout_cache = build_cache(slide_layouts)
    /\ layout_call = NoCall
    /\ prs_slides = <<>>
    /\ generator_pc = "ready"
    /\ output_files = {OUTPUT_DIR}
    /\ generate_result = NotGenerated

CallOf(role, outcome) ==
    [role |-> role, raised |-> outcome.raised, layout |-> outcome.layout,
     by |-> outcome.by]

\* resolver.get_layout(role), before the generator adds slides
GetLayout(role) ==
    /\ generator_pc = "ready"
    /\ layout_call' = CallOf(role, get_layout(slide_layouts, layout_cache, role))
    /\ UNCHANGED <<slide_layouts, layout_cache, prs_slides, generator_pc,
                   output_files, generate_result>>
    /\ UNCHANGED NotLayoutVars

\* prs.slides.add_slide(resolver.get_layout(role)); an IndexError leaves the
\* generator
AddSlide(layout_type, role, outcome) ==
    /\ layout_call' = CallOf(role, outcome)
    /\ IF outcome.raised
       THEN generator_pc' = "raised" /\ UNCHANGED prs_slides
       ELSE /\ generator_pc' = "generating"
            /\ prs_slides' = Append(prs_slides, [layout_type |-> layout_type,
                                                 layout |-> outcome.layout])
    /\ UNCHANGED <<slide_layouts, layout_cache, output_files, generate_result>>
    /\ UNCHANGED NotLayoutVars

\* _add_title_slide: the first slide generate adds
AddTitleSlide ==
    /\ generator_pc = "ready"
    /\ AddSlide("title", "title",
                get_layout(slide_layouts, layout_cache, "title"))

\* _add_content_slide
AddContentSlide(layout_type) ==
    /\ generator_pc \in {"ready", "generating"}
    /\ Len(prs_slides) < MaxSlides
    /\ AddSlide(layout_type, ResolvedLayout(layout_type),
                get_layout(slide_layouts, layout_cache,
                           ResolvedLayout(layout_type)))

\* the titles of parsed documents: none, empty, and one with characters a
\* file name does not take
GenerateTitles ==
    { None, <<>>, <<"a", "/", "b", ":", " ", "<gae>", "<yo>", " ">> }

\* str(uuid.uuid4())[:8]
UniqueIds ==
    { <<"1", "a", "2", "b", "3", "c", "4", "d">>,
      <<"0", "f", "9", "e", "8", "d", "7", "c">> }

\* the title slide is there: generate was given a title that is truthy
HasTitleSlide == prs_slides # <<>> /\ prs_slides[1].layout_type = "title"

\* the end of generate: _generate_output_path(title), prs.save(output_path),
\* return output_path; a title of None is not iterable
SaveDeck(title, unique_id) ==
    /\ generator_pc \in {"ready", "generating"}
    /\ Truthy(title) <=> HasTitleSlide
    /\ IF title = None
       THEN /\ generator_pc' = "raised"
            /\ generate_result' = RaisedTypeError
            /\ UNCHANGED output_files
       ELSE /\ generator_pc' = "saved"
            /\ generate_result' =
                   ReturnedPath(generate_output_path(title, unique_id))
            /\ output_files' =
                   SavedFiles(output_files,
                              generate_output_path(title, unique_id))
    /\ UNCHANGED <<slide_layouts, layout_cache, layout_call, prs_slides>>
    /\ UNCHANGED NotLayoutVars

LayoutNext ==
    \/ \E role \in Roles : GetLayout(role)
    \/ AddTitleSlide
    \/ \E layout_type \in LayoutTypes : AddContentSlide(layout_type)
    \/ \E title \in GenerateTitles, unique_id \in UniqueIds :
           SaveDeck(title, unique_id)

\* the legacy renderer's layout resolution alone
InitLayout ==
    LayoutInit /\ ParserIdle /\ SummarizerIdle /\ FitIdle /\ AnalyzerIdle
        /\ DesignIdle
        /\ RoutersIdle

SpecLayout == InitLayout /\ [][LayoutNext]_vars


\* the deck's layouts whose trimmed name equals a name, whatever the case
LayoutsNamed(name) ==
    {i \in 1..Len(slide_layouts) :
        Lower(Strip(slide_layouts[i])) = Lower(name)}

\* the positions, in a role's configured list, of the names some layout has
MatchingNames(role) ==
    {k \in 1..Len(AlternativesOf(role)) :
        LayoutsNamed(AlternativesOf(role)[k]) # {}}

EarliestName(role) == AlternativesOf(role)[Min(MatchingNames(role))]

\* C7: when some configured name of the role equals, whatever the case, the
\* trimmed name of a layout of the deck, get_layout returns a layout with the
\* earliest such name of the configured list, wherever it is in the deck; it
\* returns by index only when no configured name matches.
C7_EarliestNameWins ==
    layout_call.role # "" =>
        IF MatchingNames(layout_call.role) # {}
        THEN /\ ~layout_call.raised
             /\ layout_call.by = "name"
             /\ layout_call.layout + 1 \in
                    LayoutsNamed(EarliestName(layout_call.role))
        ELSE layout_call.by # "name"

\* the title role on a deck whose first layout has the third configured name
\* and whose second has the first one, in capitals and padded
C7_Witness ==
    /\ layout_call.role = "title"
    /\ Len(slide_layouts) >= 2
    /\ slide_layouts[1] = <<"<pyo>", "<ji>">>
    /\ slide_layouts[2] =
           <<" ", "T", "I", "T", "L", "E", " ", "S", "L", "I", "D", "E", " ">>
    /\ layout_call.layout = 1

\* C8: for a role of the fallback table and a deck with at least one layout
\* where no configured name of the role matches, get_layout does not raise and
\* returns the layout at the role's index, or the first layout when the index
\* is past the deck.
C8_FallbackByIndex ==
    ( /\ layout_call.role \in DOMAIN fallback_indices
      /\ Len(slide_layouts) >= 1
      /\ MatchingNames(layout_call.role) = {} )
    => /\ ~layout_call.raised
       /\ layout_call.layout =
              IF fallback_indices[layout_call.role] < Len(slide_layouts)
              THEN fallback_indices[layout_call.role]
              ELSE 0

\* the blank role (index 6) on a deck of two layouts, neither named blank
C8_Witness ==
    /\ layout_call.role = "blank"
    /\ Len(slide_layouts) = 2
    /\ MatchingNames("blank") = {}
    /\ layout_call.by = "first"
    /\ layout_call.layout = 0

\* a role no configured name matches and the fallback table does not have
Unresolvable(role) ==
    /\ role # ""
    /\ role \notin DOMAIN fallback_indices
    /\ MatchingNames(role) = {}

\* C9 as claimed: a role matched by no configured name and absent from the
\* fallback table is a fatal error: get_layout returns no layout for it, and
\* every slide added has a layout type the generator resolves, none a
\* substituted layout.
C9_UnknownRoleIsFatal ==
    /\ Unresolvable(layout_call.role) => layout_call.raised
    /\ \A n \in 1..Len(prs_slides) :
           prs_slides[n].layout_type \in DOMAIN layout_map \cup {"title"}

\* C9 as amended: such a role resolves to the layout at index 1, or to the
\* first layout of a deck of one; the call raises only on a deck without
\* layouts, and then no slide has been added.
C9_UnknownRoleFallsBack ==
    /\ Unresolvable(layout_call.role) =>
           IF Len(slide_layouts) = 0 THEN layout_call.raised
           ELSE /\ ~layout_call.raised
                /\ layout_call.layout = IF Len(slide_layouts) >= 2 THEN 1 ELSE 0
    /\ layout_call.raised => Len(slide_layouts) = 0 /\ prs_slides = <<>>

\* a role of neither table on a deck of two layouts or more: layout 1
C9_Witness ==
    /\ layout_call.role = "hero"
    /\ Len(slide_layouts) >= 2
    /\ ~layout_call.raised
    /\ layout_call.layout = 1


(***************************************************************************)
(* template_analyzer.py: one TemplateAnalyzer and the templates it reads   *)
(***************************************************************************)
MaxShapes == 2

Arial == <<"A", "r", "i", "a", "l">>

MalgunEnglish == <<"M", "a", "l", "g", "u", "n", " ", "G", "o", "t", "h", "i", "c">>

\* a shape placed an inch from the left and the top, two inches by two
Shape(fill, line, runs) ==
    [fill |-> fill, line |-> line, runs |-> runs,
     left |-> Hundredths(100), top |-> Hundredths(100),
     width |-> Hundredths(200), height |-> Hundredths(200)]

Run(name, color) == [name |-> name, color |-> color]

\* the shapes of the templates: fills, lines and runs of dark, mid and light
\* colours, #555555 having brightness 85 exactly
ShapeVocab ==
    { Shape(<<16, 16, 16>>, NoColor, <<>>),
      Shape(<<0, 0, 0>>, <<59, 130, 246>>, <<Run(Arial, <<16, 16, 16>>)>>),
      Shape(<<245, 245, 245>>, NoColor, <<Run(MalgunEnglish, NoColor)>>),
      Shape(<<255, 255, 255>>, <<85, 85, 85>>, <<Run(NoFont, <<0, 0, 0>>)>>),
      Shape(<<59, 130, 246>>, NoColor, <<>>) }

\* a template: the shapes of its slides in the order they are visited
Templates == UNION {[1..n -> ShapeVocab] : n \in 0..MaxShapes}

\* TemplateAnalyzer()
AnalyzerInit ==
    /\ extracted_colors = <<>>
    /\ extracted_fonts = <<>>
    /\ analyze_result = NoStyle
    /\ analyze_call = CallOn("")
    /\ template_files = <<>>

\* analyze(pptx_path) of a template that exists and reads
Analyzed(file, collected, font_names, margins) ==
    /\ extracted_colors' = collected
    /\ extracted_fonts' = font_names
    /\ analyze_result' = TemplateStyle(collected, font_names, margins)
    /\ analyze_call' = CallOn(file)
    /\ UNCHANGED template_files
    /\ UNCHANGED NotAnalyzerVars

AnalyzeDeck(file, deck) ==
    Analyzed(file,
             SlidesColors(extracted_colors, AllShapes(deck)),
             SlidesFonts(extracted_fonts, AllShapes(deck)),
             analyze_margins(deck))

\* a template of one slide with these shapes
Analyze(shapes) == AnalyzeDeck("deck", <<shapes>>)

\* analyze(pptx_path) when os.path.exists(pptx_path) is false, had it
\* returned the style of an empty deck
AnalyzeMissingFileAsEmpty ==
    /\ analyze_result' = StyleOf(extracted_colors, extracted_fonts)
    /\ analyze_call' = CallOn("missing")
    /\ UNCHANGED <<extracted_colors, extracted_fonts, template_files>>
    /\ UNCHANGED NotAnalyzerVars

\* analyze(pptx_path) when os.path.exists(pptx_path) is false
AnalyzeMissingFile ==
    /\ analyze_result' = RaisedBy("FileNotFoundError")
    /\ analyze_call' = CallOn("missing")
    /\ UNCHANGED <<extracted_colors, extracted_fonts, template_files>>
    /\ UNCHANGED NotAnalyzerVars

\* what Presentation(pptx_path) raises on a file that is no deck
ReadFaults == {"PackageNotFoundError", "BadZipFile", "KeyError"}

\* analyze(pptx_path) when Presentation(pptx_path) raises: nothing catches
\* the exception, which leaves analyze as it is
AnalyzeUnreadableFile(fault) ==
    /\ analyze_result' = RaisedBy(fault)
    /\ analyze_call' = CallOn("unreadable")
    /\ UNCHANGED <<extracted_colors, extracted_fonts, template_files>>
    /\ UNCHANGED NotAnalyzerVars

\* a new TemplateAnalyzer(), as analyze_template makes for each call
NewAnalyzer ==
    /\ analyze_result # NoStyle
    /\ extracted_colors' = <<>>
    /\ extracted_fonts' = <<>>
    /\ analyze_result' = NoStyle
    /\ analyze_call' = CallOn("")
    /\ UNCHANGED template_files
    /\ UNCHANGED NotAnalyzerVars

AnalyzerNext ==
    \/ \E shapes \in Templates : Analyze(shapes)
    \/ AnalyzeMissingFile
    \/ \E fault \in ReadFaults : AnalyzeUnreadableFile(fault)
    \/ NewAnalyzer

\* the style extractor alone
InitAnalyzer ==
    AnalyzerInit /\ ParserIdle /\ SummarizerIdle /\ FitIdle /\ LayoutIdle
        /\ DesignIdle
        /\ RoutersIdle

SpecAnalyzer == InitAnalyzer /\ [][AnalyzerNext]_vars

\* analyze returned a style
Styled == analyze_result # NoStyle /\ analyze_result.raised = ""

\* luminance 0.299R + 0.587G + 0.114B of a collected colour, in thousandths
Luminance(color) == get_color_brightness(color)

\* where the colours of a bucket are in the list of collected colours
DarkAt == {i \in 1..Len(extracted_colors) :
              Luminance(extracted_colors[i]) < 85 * 1000}

MidAt == {i \in 1..Len(extracted_colors) :
             /\ Luminance(extracted_colors[i]) >= 85 * 1000
             /\ Luminance(extracted_colors[i]) <= 200 * 1000}

\* the position of the colour of lowest luminance among some positions
DarkestAt(I) ==
    CHOOSE i \in I : \A j \in I :
        Luminance(extracted_colors[i]) <= Luminance(extracted_colors[j])

\* a role whose bucket is empty keeps its default
EmptyBucketKeepsDefault ==
    /\ DarkAt = {} => /\ analyze_result.colors.primary = ColorPalette.primary
                      /\ analyze_result.colors.text_dark = ColorPalette.text_dark
    /\ Cardinality(DarkAt) < 2 =>
           analyze_result.colors.secondary = ColorPalette.secondary
    /\ MidAt = {} => analyze_result.colors.accent = ColorPalette.accent

\* C10 as claimed: after analyze, primary and text_dark are the darkest
\* collected colour of luminance below 85, secondary is the next-darkest one,
\* accent is a colour of the mid bucket, whatever the order of the shapes; a
\* role whose bucket is empty keeps its default.
C10_DarkestIsPrimary ==
    Styled =>
        /\ DarkAt # {} =>
               /\ analyze_result.colors.primary =
                      extracted_colors[DarkestAt(DarkAt)]
               /\ analyze_result.colors.text_dark =
                      extracted_colors[DarkestAt(DarkAt)]
        /\ Cardinality(DarkAt) >= 2 =>
               analyze_result.colors.secondary =
                   extracted_colors[DarkestAt(DarkAt \ {DarkestAt(DarkAt)})]
        /\ MidAt # {} =>
               analyze_result.colors.accent \in
                   {extracted_colors[i] : i \in MidAt}
        /\ EmptyBucketKeepsDefault

\* C10 as amended: after analyze, primary and text_dark are the dark colour
\* the analyzer collected first, secondary is the dark colour it collected
\* second, accent is the mid colour it collected first; a role whose bucket
\* is empty keeps its default.
C10_FirstCollectedIsPrimary ==
    Styled =>
        /\ DarkAt # {} =>
               /\ analyze_result.colors.primary = extracted_colors[Min(DarkAt)]
               /\ analyze_result.colors.text_dark = extracted_colors[Min(DarkAt)]
        /\ Cardinality(DarkAt) >= 2 =>
               analyze_result.colors.secondary =
                   extracted_colors[Min(DarkAt \ {Min(DarkAt)})]
        /\ MidAt # {} =>
               analyze_result.colors.accent = extracted_colors[Min(MidAt)]
        /\ EmptyBucketKeepsDefault

\* #101010 collected before #000000, and a mid colour: primary is #101010
C10_Witness ==
    /\ Styled
    /\ Len(extracted_colors) >= 3
    /\ extracted_colors[1] = <<"#", "1", "0", "1", "0", "1", "0">>
    /\ <<"#", "0", "0", "0", "0", "0", "0">> \in Range(extracted_colors)
    /\ MidAt # {}
    /\ analyze_result.colors.primary = <<"#", "1", "0", "1", "0", "1", "0">>
    /\ analyze_result.colors.secondary = <<"#", "0", "0", "0", "0", "0", "0">>


\* where the light colours other than white are in the collected list
NonWhiteLightAt ==
    {i \in 1..Len(extracted_colors) :
        /\ Luminance(extracted_colors[i]) > 200 * 1000
        /\ extracted_colors[i] # White}

\* the position of the colour of highest luminance among some positions
LightestAt(I) ==
    CHOOSE i \in I : \A j \in I :
        Luminance(extracted_colors[i]) >= Luminance(extracted_colors[j])

\* C11: after analyze, background is the lightest collected colour of
\* luminance above 200 other than #FFFFFF whenever one was collected, also
\* when #FFFFFF was collected before it, and is the default #FFFFFF only when
\* none was collected.
C11_LightestNonWhiteIsBackground ==
    Styled =>
        IF NonWhiteLightAt # {}
        THEN analyze_result.colors.background =
                 extracted_colors[LightestAt(NonWhiteLightAt)]
        ELSE analyze_result.colors.background = ColorPalette.background


\* C12 as claimed: analyze fails with FileNotFound when the path does not
\* exist and with an AnalysisError when the file exists but does not read as
\* a deck; no other error leaves analyze, and a failed call returns no style.
C12_FileNotFoundOrAnalysisError ==
    /\ analyze_call.file = "missing" =>
           analyze_result.raised = "FileNotFoundError"
    /\ analyze_call.file = "unreadable" =>
           analyze_result.raised = "AnalysisError"
    /\ analyze_result.raised \in {"", "FileNotFoundError", "AnalysisError"}
    /\ analyze_result.raised # "" =>
           analyze_result.colors = <<>> /\ analyze_result.fonts = <<>>

\* C12 as amended: analyze fails with FileNotFoundError when the path does
\* not exist; when the file exists but does not read as a deck, the exception
\* of the read itself leaves analyze, unwrapped; a failed call returns no
\* style.
C12_ReadFaultEscapesUnwrapped ==
    /\ analyze_call.file = "missing" =>
           analyze_result.raised = "FileNotFoundError"
    /\ analyze_call.file = "unreadable" => analyze_result.raised \in ReadFaults
    /\ analyze_result.raised # "" =>
           /\ analyze_call.file \in {"missing", "unreadable"}
           /\ analyze_result.colors = <<>> /\ analyze_result.fonts = <<>>

\* a file that is no zip archive, after colours were collected from a deck
C12_Witness ==
    /\ analyze_call.file = "unreadable"
    /\ analyze_result.raised = "BadZipFile"
    /\ extracted_colors # <<>>

(***************************************************************************)
(* ppt_designer.py: a PPTDesigner and one call of design                   *)
(***************************************************************************)
MaxContentSlides == 4

\* SlideContent entries as the summarizer makes them: numbered bullet chunks,
\* a table slide and its bullet slide, metrics, a title alone, and a layout
\* hint the designer does not know
ContentVocab ==
    { SlideContent(<<"S", " ", "(", "1", ")">>, <<<<"b">>>>, <<>>, NoneRec,
                   "bullet", 1),
      SlideContent(<<"T">>, <<>>, <<>>,
                   [headers |-> <<<<"h">>>>, rows |-> <<<<<<"c">>>>>>],
                   "table", 3),
      SlideContent(<<"T", " ", "-", " ", "<ju>", "<yo>", " ", "<nae>", "<yong>">>,
                   <<<<"b">>>>, <<>>, NoneRec, "bullet", 3),
      SlideContent(<<"M">>, <<>>,
                   <<[label |-> <<"l">>, value |-> <<"1">>]>>, NoneRec,
                   "metrics", 2),
      SlideContent(<<>>, <<>>, <<>>, NoneRec, "title_only", 1),
      SlideContent(<<"X">>, <<<<"b">>>>, <<>>, NoneRec, "two_column", 1) }

\* a title with no subtitle, and no title with a subtitle
ContentHeads ==
    { [title |-> <<"D">>, subtitle |-> None],
      [title |-> <<>>, subtitle |-> <<"2", "0", "2", "4">>] }

Contents ==
    { [title |-> h.title, subtitle |-> h.subtitle, slides |-> sl,
       metadata |-> <<>>] :
        h \in ContentHeads,
        sl \in UNION {[1..n -> ContentVocab] : n \in 0..MaxContentSlides} }

\* PPTDesigner(): self.prs = None; the content is what design is called with
DesignInit ==
    /\ design_content \in Contents
    /\ designer_prs = None

\* designer.design(content)
Design ==
    /\ designer_prs = None
    /\ designer_prs' = design(design_content)
    /\ UNCHANGED design_content
    /\ UNCHANGED NotDesignVars

DesignNext == Design

\* the themed renderer alone
InitDesign ==
    DesignInit /\ ParserIdle /\ SummarizerIdle /\ FitIdle /\ LayoutIdle
        /\ AnalyzerIdle
        /\ RoutersIdle

SpecDesign == InitDesign /\ [][DesignNext]_vars

\* the number of slides of a kind in the deck
SlidesOfKind(kind) ==
    Cardinality({i \in 1..Len(designer_prs) : designer_prs[i].kind = kind})

\* one for a contents slide, none without
TocCount == IF Len(design_content.slides) > 3 THEN 1 ELSE 0

\* the slide of the deck made for the i-th SlideContent
RenderedAt(i) == designer_prs[1 + TocCount + i]

\* C13: design returns a deck of, in this order, one title slide, one
\* contents slide if and only if the content has more than three slides, one
\* slide per SlideContent in the order of content.slides, and one closing
\* slide: len(content.slides) + 2 slides up to three, + 3 beyond.
C13_SlideSequence ==
    designer_prs # None =>
        /\ Len(designer_prs) = Len(design_content.slides) + 2 + TocCount
        /\ designer_prs[1].kind = "title"
        /\ SlidesOfKind("title") = 1
        /\ SlidesOfKind("toc") = TocCount
        /\ TocCount = 1 => designer_prs[2].kind = "toc"
        /\ \A i \in 1..Len(design_content.slides) :
               /\ RenderedAt(i).kind \in {"section", "metrics", "table", "bullet"}
               /\ design_content.slides[i].title # <<>> =>
                      RenderedAt(i).title = design_content.slides[i].title
        /\ designer_prs[Len(designer_prs)].kind = "closing"
        /\ SlidesOfKind("closing") = 1

\* four SlideContent entries: seven slides, the second the contents slide
C13_Witness ==
    /\ designer_prs # None
    /\ Len(design_content.slides) = 4
    /\ Len(designer_prs) = 7
    /\ designer_prs[2].kind = "toc"

(***************************************************************************)
(* md_parser.py: sections with images, code fences and tables              *)
(***************************************************************************)
MaxSectionLines == 4

\* the lines a section is made of: a heading, an image, a code fence, a
\* table row, a bullet and a blank line
SectionLineVocab ==
    { <<"#", "#", " ", "S">>,
      <<"!", "[", "a", "]", "(", "u", ")">>,
      <<BackTick, BackTick, BackTick>>,
      <<"|", " ", "a", " ", "|">>,
      <<"-", " ", "x">>,
      <<>> }

SectionTexts ==
    {Join(ls, <<NL>>) :
        ls \in UNION {[1..n -> SectionLineVocab] : n \in 0..MaxSectionLines}}

\* MarkdownParser() given a text of such lines
SectionsInit ==
    /\ md_content \in SectionTexts
    /\ parser_pc = "ready"
    /\ parser_result = NoneRec
    /\ metadata_result = [returned |-> FALSE, value |-> <<>>]
    /\ mistune_result = NoneRec

InitSections ==
    SectionsInit /\ SummarizerIdle /\ FitIdle /\ LayoutIdle /\ AnalyzerIdle
        /\ DesignIdle
        /\ RoutersIdle

SpecSections == InitSections /\ [][ParserNext]_vars

\* C14: every slide parse returns has the layout image_only if its images are
\* non-empty and its content is empty, else image_content if its images are
\* non-empty, else code if its code_blocks are non-empty, else table if its
\* tables are non-empty, else title_content.
C14_LayoutIsFixedFunction ==
    parser_pc = "parsed" =>
        \A i \in 1..Len(parser_result.slides) :
            LET slide == parser_result.slides[i]
            IN  /\ slide.layout = "image_only" <=>
                       (slide.images # <<>> /\ slide.content = <<>>)
                /\ slide.layout = "image_content" <=>
                       (slide.images # <<>> /\ slide.content # <<>>)
                /\ slide.layout = "code" <=>
                       (slide.images = <<>> /\ slide.code_blocks # <<>>)
                /\ slide.layout = "table" <=>
                       (slide.images = <<>> /\ slide.code_blocks = <<>>
                            /\ slide.tables # <<>>)
                /\ slide.layout = "title_content" <=>
                       (slide.images = <<>> /\ slide.code_blocks = <<>>
                            /\ slide.tables = <<>>)

\* a slide with an image and a code block, laid out for its image
C14_Witness ==
    /\ parser_pc = "parsed"
    /\ \E i \in 1..Len(parser_result.slides) :
           /\ parser_result.slides[i].images # <<>>
           /\ parser_result.slides[i].code_blocks # <<>>
           /\ parser_result.slides[i].layout = "image_content"

(***************************************************************************)
(* content_summarizer.py: documents with sections to skip                  *)
(***************************************************************************)
MaxSkipSections == 2

\* sections titled with each skip keyword, at the start, in the middle and
\* alone, carrying bullets, a metric or a table; a section that is kept; and
\* a title that only looks like a keyword
SkipVocab ==
    { SlideData(<<"<bu>", "<rok>", " ", "A">>, Bullets(1), <<WideTable(1)>>),
      SlideData(<<"1", ".", " ", "<cham>", "<go>", " ", "<mun>", "<seo>">>,
                Costs(1), <<>>),
      SlideData(<<"<mun>", "<seo>", " ", "<gae>", "<jeong>", " ", "<i>", "<ryeok>">>,
                <<>>, <<WideTable(1)>>),
      SlideData(<<"A", "<byeol>", "<cheom>">>, Bullets(MAX_BULLETS_PER_SLIDE + 1),
                <<>>),
      SlideData(<<"S">>, Bullets(1), <<>>),
      SlideData(<<"<cham>", " ", "<go>">>, Bullets(1), <<>>) }

SkipDocs ==
    {[title |-> h.title, slides |-> slides, metadata |-> h.metadata] :
        h \in Heads,
        slides \in UNION {[1..n -> SkipVocab] : n \in 0..MaxSkipSections}}

\* ContentSummarizer() and such a document
SkipInit ==
    /\ parsed_data \in SkipDocs
    /\ self_parsed_content = NoneRec
    /\ presentation = NoneRec
    /\ summaries = <<>>

InitSkip ==
    SkipInit /\ ParserIdle /\ FitIdle /\ LayoutIdle /\ AnalyzerIdle
        /\ DesignIdle
        /\ RoutersIdle

SpecSkip == InitSkip /\ [][SummarizerNext]_vars

\* the title of a section, "" for None
TitleText(slide_data) ==
    IF slide_data.title = None THEN <<>> ELSE slide_data.title

IsSkipTitled(slide_data) ==
    \E k \in 1..Len(SKIP_SECTIONS) :
        \E i \in 1..Len(TitleText(slide_data)) :
            StartsWith(Slice(TitleText(slide_data), i, Len(TitleText(slide_data))),
                       SKIP_SECTIONS[k])

\* the document without its sections to skip
WithoutSkipped(doc) ==
    [doc EXCEPT !.slides = SelectSeq(doc.slides, LAMBDA sd : ~IsSkipTitled(sd))]

\* C15: a section whose title contains a skip keyword contributes no
\* SlideContent: the slides summarize returns are those of the document
\* without such sections, and none of them is titled with a keyword.
C15_SkippedSectionsContributeNothing ==
    presentation # NoneRec =>
        /\ presentation.slides = summarize(WithoutSkipped(parsed_data)).slides
        /\ \A i \in 1..Len(presentation.slides) :
               ~IsSkipTitled(presentation.slides[i])

\* a section with a keyword inside its title and a metric was skipped next to
\* a section that was kept
C15_Witness ==
    /\ presentation # NoneRec
    /\ \E i \in 1..Len(parsed_data.slides) :
           /\ IsSkipTitled(parsed_data.slides[i])
           /\ Contains(parsed_data.slides[i].title, <<"<cham>", "<go>">>)
           /\ ~StartsWith(parsed_data.slides[i].title, <<"<cham>", "<go>">>)
           /\ parsed_data.slides[i].content # <<>>
    /\ Len(presentation.slides) = 1

(***************************************************************************)
(* md_parser.py: _parse_table on the lines buffered for one table          *)
(***************************************************************************)
\* a text that is buffered whole as one table: two or more lines, each
\* starting and ending with "|"
IsTableBuffer(lines) ==
    /\ Len(lines) >= 2
    /\ \A i \in 1..Len(lines) : IsTableRowLine(lines[i])

\* the cells of the rows that are not separator rows, in source order
NonSeparatorRows(lines) ==
    SelectSeq([i \in 1..Len(lines) |-> TableCells(lines[i])],
              LAMBDA cells : ~IsSeparatorCells(cells))

\* C19: of the lines buffered for a table, the first row that is not a
\* separator row gives the headers and every later such row is a data row,
\* in source order; a separator row is neither, wherever it stands, also as
\* the first buffered line.
C19_FirstNonSeparatorRowIsHeaders ==
    (parser_pc = "parsed" /\ IsTableBuffer(Split(md_content, NL))) =>
        LET rows == NonSeparatorRows(Split(md_content, NL))
        IN  rows # <<>> =>
                AllTables(parser_result) =
                    {[headers |-> CleanCells(Head(rows)),
                      rows |-> [k \in 1..(Len(rows) - 1) |->
                                   CleanCells(rows[k + 1])]]}

(***************************************************************************)
(* template_analyzer.py: one TemplateAnalyzer and the template files       *)
(***************************************************************************)
MaxPlaced == 1

\* a shape with this fill at a place on its slide, lengths in hundredths of
\* an inch
Placed(fill, left, top, width, height) ==
    [fill |-> fill, line |-> NoColor, runs |-> <<>>,
     left |-> Hundredths(left), top |-> Hundredths(top),
     width |-> Hundredths(width), height |-> Hundredths(height)]

\* a thin bar across the top edge, from the left edge on
EdgeBar == Placed(<<16, 16, 16>>, 0, 0, 1333, 20)

\* a thin bar at the top edge, half an inch in
InsetBar == Placed(<<59, 130, 246>>, 50, 0, 200, 20)

\* the shapes of the first slides: the two bars, a bar that begins at 0.3
\* inch, a bar 0.3 inch high, a line without height, and a body box
PlacedVocab ==
    { EdgeBar,
      InsetBar,
      Placed(NoColor, 50, 30, 200, 20),
      Placed(NoColor, 100, 10, 200, 30),
      Placed(NoColor, 100, 20, 200, 0),
      Placed(<<245, 245, 245>>, 100, 100, 400, 300) }

FirstSlides == UNION {[1..n -> PlacedVocab] : n \in 0..MaxPlaced}

\* a deck without slides, a deck of one slide, and a deck whose second
\* slide holds a thin top bar
FileDecks ==
    {<<>>} \cup {<<first>> : first \in FirstSlides}
           \cup {<<first, <<InsetBar>>>> : first \in FirstSlides}

Paths == {"a.pptx", "b.pptx"}

\* TemplateAnalyzer() and the files there are
FilesInit ==
    /\ extracted_colors = <<>>
    /\ extracted_fonts = <<>>
    /\ analyze_result = NoStyle
    /\ analyze_call = CallOn("")
    /\ template_files \in [Paths -> FileDecks]

\* analyzer.analyze(path) of a file that holds a deck
AnalyzeFile(path) == AnalyzeDeck(path, template_files[path])

FilesNext ==
    \/ \E path \in Paths : AnalyzeFile(path)
    \/ AnalyzeMissingFile
    \/ \E fault \in ReadFaults : AnalyzeUnreadableFile(fault)
    \/ NewAnalyzer

InitFiles ==
    FilesInit /\ ParserIdle /\ SummarizerIdle /\ FitIdle /\ LayoutIdle
        /\ DesignIdle
        /\ RoutersIdle

SpecFiles == InitFiles /\ [][FilesNext]_vars

\* analyze returned the style of one of the files
StyledFile == Styled /\ analyze_call.file \in Paths

\* the shapes of the first slide of the file analysed last
FirstSlideShapes ==
    IF template_files[analyze_call.file] = <<>> THEN <<>>
    ELSE template_files[analyze_call.file][1]

\* C20: after analyze, use_header_bar is true if and only if some shape of
\* the first slide has top < 0.3 inch and height < 0.3 inch, wherever the
\* shape stands, left = 0 and top = 0 included, and header_height is then the
\* height of such a shape; shapes of other slides do not count.
C20_ThinTopShapeIsHeaderBar ==
    StyledFile =>
        /\ analyze_result.margins.use_header_bar <=>
               \E i \in 1..Len(FirstSlideShapes) :
                   /\ FirstSlideShapes[i].top < Hundredths(30)
                   /\ FirstSlideShapes[i].height < Hundredths(30)
        /\ analyze_result.margins.use_header_bar =>
               \E i \in 1..Len(FirstSlideShapes) :
                   /\ FirstSlideShapes[i].top < Hundredths(30)
                   /\ FirstSlideShapes[i].height < Hundredths(30)
                   /\ analyze_result.margins.header_height =
                          FirstSlideShapes[i].height

\* what a new TemplateAnalyzer returns for a deck
FreshStyle(deck) ==
    TemplateStyle(SlidesColors(<<>>, AllShapes(deck)),
                  SlidesFonts(<<>>, AllShapes(deck)),
                  analyze_margins(deck))

\* C18: a component is stateless per call; of the template analyzer: analyze
\* of a file B by an analyzer that has analysed a file A before returns what
\* a new analyzer returns for B, with no colour or font collected from A.
C18_UsedAnalyzerIsLikeNew ==
    StyledFile => analyze_result = FreshStyle(template_files[analyze_call.file])

(***************************************************************************)
(* The two renderers and the file system                                   *)
(***************************************************************************)
\* a PPTGenerator over a deck of at most one layout and a PPTDesigner with a
\* content of at most one slide
RenderInit ==
    /\ LayoutInit
    /\ Len(slide_layouts) <= 1
    /\ DesignInit
    /\ Len(design_content.slides) <= 1

RenderNext == LayoutNext \/ DesignNext

InitRender ==
    RenderInit /\ ParserIdle /\ SummarizerIdle /\ FitIdle /\ AnalyzerIdle
        /\ RoutersIdle

SpecRender == InitRender /\ [][RenderNext]_vars

NewRenderer ==
    [slides |-> <<>>, current_slide |-> NoneRec, presentation_title |-> None]

\* the slide dict of _ensure_slide and of a level 2 heading
RendererSlide(title) ==
    [title |-> title, content |-> <<>>, images |-> <<>>, code_blocks |-> <<>>,
     layout |-> "title_content"]

\* _ensure_slide
ensure_slide(r) ==
    IF r.current_slide = NoneRec
    THEN [r EXCEPT !.current_slide = RendererSlide(None)]
    ELSE r

\* the layout _finalize_slide decides
FinalLayout(slide) ==
    IF slide.images # <<>> /\ slide.content = <<>> THEN "image_only"
    ELSE IF slide.images # <<>> THEN "image_content"
    ELSE IF slide.code_blocks # <<>> THEN "code"
    ELSE slide.layout

\* _finalize_slide; called only with a slide in progress
finalize_slide(r) ==
    [r EXCEPT !.slides =
        Append(@, [r.current_slide EXCEPT !.layout = FinalLayout(r.current_slide)])]

WithContent(r, type, text) ==
    [r EXCEPT !.current_slide.content = Append(@, Item(type, text))]

\* SlideRenderer.heading
heading(r, text, level) ==
    IF level = 1 THEN [r EXCEPT !.presentation_title = text]
    ELSE IF level = 2
    THEN [(IF r.current_slide # NoneRec THEN finalize_slide(r) ELSE r)
             EXCEPT !.current_slide = RendererSlide(text)]
    ELSE IF level = 3 THEN WithContent(ensure_slide(r), "subheading", text)
    ELSE r

\* SlideRenderer.paragraph
paragraph(r, text) ==
    IF Strip(text) # <<>> THEN WithContent(ensure_slide(r), "text", Strip(text))
    ELSE ensure_slide(r)

\* SlideRenderer.list_item, of a text without tags
list_item(r, text) ==
    IF Strip(text) # <<>> THEN WithContent(ensure_slide(r), "bullet", Strip(text))
    ELSE ensure_slide(r)

\* SlideRenderer.finalize, without the metadata
finalize(r) ==
    [title |-> r.presentation_title,
     slides |-> (IF r.current_slide # NoneRec THEN finalize_slide(r) ELSE r).slides]

\* the callback self.markdown(content) makes for a block that is one line,
\* with the arguments the callbacks declare: a heading of level 1 to 3, a
\* list item, or a paragraph
RenderLine(r, line) ==
    IF StartsWith(line, <<"#", " ">>)
    THEN heading(r, Strip(Slice(line, 3, Len(line))), 1)
    ELSE IF StartsWith(line, <<"#", "#", " ">>)
    THEN heading(r, Strip(Slice(line, 4, Len(line))), 2)
    ELSE IF StartsWith(line, <<"#", "#", "#", " ">>)
    THEN heading(r, Strip(Slice(line, 5, Len(line))), 3)
    ELSE IF StartsWith(line, <<"-", " ">>)
    THEN list_item(r, Slice(line, 3, Len(line)))
    ELSE IF line = <<>> THEN r
    ELSE paragraph(r, line)

\* self.markdown(content), of a text whose blocks are one line each: the
\* callbacks in the order of the blocks
RECURSIVE RenderLines(_, _)
RenderLines(r, lines) ==
    IF lines = <<>> THEN r
    ELSE RenderLines(RenderLine(r, Head(lines)), Tail(lines))

\* _separate_frontmatter: the content and the metadata
SeparatedAt(text, end) ==
    IF StartsWith(text, <<"-", "-", "-">>) /\ end > 1
    THEN [content |-> Strip(Slice(text, end + 3, Len(text))),
          metadata |-> FrontMatterDict(Strip(Slice(text, 4, end - 1)))]
    ELSE [content |-> text, metadata |-> <<>>]

separate_frontmatter(text) ==
    SeparatedAt(text, FindFrom(text, <<"-", "-", "-">>, 4))

\* MistuneParser.parse
MistuneParsed(parts) ==
    [title |-> finalize(RenderLines(NewRenderer, Split(parts.content, NL))).title,
     slides |-> finalize(RenderLines(NewRenderer, Split(parts.content, NL))).slides,
     metadata |-> parts.metadata]

mistune_parse(text) == MistuneParsed(separate_frontmatter(text))

(***************************************************************************)
(* md_parser.py: the two strategies on one conformant text                 *)
(***************************************************************************)
MaxBlocks == 4

\* optional front matter, then the level 1 heading
ConformantHeads ==
    { <<<<"#", " ", "T">>>>,
      <<<<"-", "-", "-">>, <<"a", ":", " ", "b">>, <<"-", "-", "-">>,
        <<"#", " ", "T">>>> }

\* the blocks of the sections: level 2 headings, a bullet, a text line
ConformantBlocks ==
    { <<"#", "#", " ", "S">>, <<"#", "#", " ", "U">>, <<"-", " ", "x">>,
      <<"p">> }

\* every section begins with its heading
IsConformant(blocks) == blocks = <<>> \/ StartsWith(blocks[1], <<"#", "#", " ">>)

IsBullet(block) == StartsWith(block, <<"-", " ">>)

\* bullets that follow one another are the items of one list; every other
\* block is set off by a blank line
BlockGap(prev, block) ==
    IF IsBullet(prev) /\ IsBullet(block) THEN <<NL>> ELSE <<NL, NL>>

TextOf(head, blocks) ==
    Join(head, <<NL>>)
        \o Join([i \in 1..Len(blocks) |->
                    BlockGap((IF i = 1 THEN <<>> ELSE blocks[i - 1]), blocks[i])
                        \o blocks[i]], <<>>)

ConformantTexts ==
    {TextOf(head, blocks) :
        head \in ConformantHeads,
        blocks \in {b \in UNION {[1..n -> ConformantBlocks] : n \in 0..MaxBlocks} :
                       IsConformant(b)}}

\* one text for the two parsers
StrategiesInit ==
    /\ md_content \in ConformantTexts
    /\ parser_pc = "ready"
    /\ parser_result = NoneRec
    /\ metadata_result = [returned |-> FALSE, value |-> <<>>]
    /\ mistune_result = NoneRec

\* MarkdownParser(use_legacy=False).parse(md_content)
ParseMistune ==
    /\ mistune_result = NoneRec
    /\ mistune_result' = mistune_parse(md_content)
    /\ UNCHANGED <<md_content, parser_pc, parser_result, metadata_result>>
    /\ UNCHANGED NotParserVars

StrategiesNext == Parse \/ ParseMistune

InitStrategies ==
    StrategiesInit /\ SummarizerIdle /\ FitIdle /\ LayoutIdle /\ AnalyzerIdle
        /\ DesignIdle
        /\ RoutersIdle

SpecStrategies == InitStrategies /\ [][StrategiesNext]_vars

\* C16: for the same conformant text the two strategies return the same
\* title, the same metadata, and slides that agree, in order, in title, in
\* the keys they have and in layout.
C16_StrategiesAgree ==
    (parser_pc = "parsed" /\ mistune_result # NoneRec) =>
        /\ parser_result.title = mistune_result.title
        /\ parser_result.metadata = mistune_result.metadata
        /\ Len(parser_result.slides) = Len(mistune_result.slides)
        /\ \A i \in 1..Len(parser_result.slides) :
               /\ parser_result.slides[i].title = mistune_result.slides[i].title
               /\ DOMAIN parser_result.slides[i] = DOMAIN mistune_result.slides[i]
               /\ parser_result.slides[i].layout = mistune_result.slides[i].layout

(***************************************************************************)
(* ppt_designer.py: the length of the lines _limit_text_lines returns      *)
(***************************************************************************)
\* the result without the "..." appended to it, when one was appended
WithoutEllipsis(s, words) ==
    IF CutShort(s, words) THEN Slice(s, 1, Len(s) - 3) ELSE s

\* C21: every physical line of the string _limit_text_lines returns, the
\* appended ellipsis not counted, has at most chars_per_line characters,
\* also when a word of the text is longer than chars_per_line.
C21_LinesWithinBudget ==
    fit_result # None =>
        \A line \in Range(Split(WithoutEllipsis(fit_result, SplitWords(fit_text)),
                                NL)) :
            Len(line) <= fit_chars_per_line

(***************************************************************************)
(* ppt_generator.py: the file name generate builds                         *)
(***************************************************************************)
\* the part of a path between the output directory and the "_<id>.pptx" end
StemOf(path) == Slice(path, Len(OUTPUT_DIR) + 2, Len(path) - 14)

\* <OUTPUT_DIR>/<stem>_<8 characters>.pptx
IsOutputPath(path) ==
    /\ Len(path) >= Len(OUTPUT_DIR) + 15
    /\ StartsWith(path, OUTPUT_DIR \o <<"/">>)
    /\ EndsWith(path, <<".", "p", "p", "t", "x">>)
    /\ path[Len(path) - 13] = "_"

\* C22: for every parsed document, also one whose title is None or keeps no
\* character, generate builds the path without raising; the file name is
\* <stem>_<8 characters>.pptx, the stem holds only alphanumerics, spaces,
\* '-' and '_', has at most 50 characters, and is "presentation" when the
\* title is None or empty.
C22_PathIsBuiltForEveryTitle ==
    generate_result # NotGenerated =>
        /\ generate_result.returned
        /\ IsOutputPath(generate_result.path)
        /\ \A c \in Range(StemOf(generate_result.path)) : IsSafeChar(c)
        /\ Len(StemOf(generate_result.path)) <= 50
        /\ ~HasTitleSlide =>
               StemOf(generate_result.path) = SafeOrDefault(<<>>)

(***************************************************************************)
(* content_summarizer.py: documents of one section                         *)
(***************************************************************************)
MaxSectionBullets == 11

\* titles with a keyword of the second list only, with one that is in both
\* lists, with one of the first list only, with one of each list, with none,
\* and no title
OneSectionTitles ==
    { <<"<gae>", "<yo>">>, <<"<mok>", "<pyo>">>, <<"<ye>", "<san>">>,
      <<"1", ".", " ", "<ye>", "<san>", " ", "<gae>", "<yo>">>, <<"S">>, None }

\* a bullet shortened at its colon, one cut at 57 characters with and
\* without a colon behind the cut, one of exactly 60 characters, one in
\* emphasis markers, an empty one and a blank one
LongBullets ==
    << Item("numbered", <<"k", ":", " ">> \o LongText),
       Item("bullet", <<"*", "*", "n", "*", "*", " ">> \o LongText),
       Item("bullet", LongText \o <<":", "z">>),
       Item("bullet", SubSeq(LongText, 1, MAX_BULLET_LENGTH)),
       Item("bullet", <<" ", BackTick, "c", BackTick, " ", "*", "i", "*", " ">>),
       Item("bullet", <<>>),
       Item("bullet", <<" ">>) >>

\* bullets that name keywords of both lists
KeywordBullets ==
    << Item("bullet", <<"<gae>", "<yo>">>), Item("bullet", <<"<ye>", "<san>">>) >>

OneSectionBullets ==
    {Bullets(n) : n \in 0..MaxSectionBullets} \cup {LongBullets, KeywordBullets}

\* two lines of a table the parser left as text
PipeTexts ==
    << Item("text", <<"a", " ", "|", " ", "b">>),
       Item("text", <<"c", " ", "|", " ", "d">>) >>

OneSectionDocs ==
    {[title |-> <<"T">>,
      slides |-> <<SlideData(title, Costs(m) \o bullets \o legacy, tables)>>,
      metadata |-> <<>>] :
        title \in OneSectionTitles, m \in 0..1, bullets \in OneSectionBullets,
        legacy \in {<<>>, PipeTexts}, tables \in {<<>>, <<WideTable(1)>>}}

\* ContentSummarizer() and a document of one section
OneSectionInit ==
    /\ parsed_data \in OneSectionDocs
    /\ self_parsed_content = NoneRec
    /\ presentation = NoneRec
    /\ summaries = <<>>

InitOneSection ==
    OneSectionInit /\ ParserIdle /\ FitIdle /\ LayoutIdle /\ AnalyzerIdle
        /\ DesignIdle
        /\ RoutersIdle

SpecOneSection == InitOneSection /\ [][SummarizerNext]_vars

\* the one section of the document
TheSection == parsed_data.slides[1]

\* the branch of a section with these bullets, metrics and table
BranchTaken(out, title, bullets, metrics, table_data) ==
    IF table_data # NoneRec
    THEN /\ out[1].layout_hint = "table"
         /\ Len(out) = (IF bullets # <<>> THEN 2 ELSE 1)
         /\ Len(out) = 2 =>
                /\ out[2].layout_hint = "bullet"
                /\ out[2].title = title \o MainContents
    ELSE IF metrics # <<>>
    THEN Len(out) = 1 /\ out[1].layout_hint = "metrics"
    ELSE IF bullets # <<>>
    THEN \A i \in 1..Len(out) : out[i].layout_hint = "bullet"
    ELSE Len(out) = 1 /\ out[1].layout_hint = "title_only"

OneBranch(out, title, classified, table_data) ==
    /\ Len(out) >= 1
    /\ \A i \in 1..Len(out) : out[i].importance = out[1].importance
    /\ BranchTaken(out, title, classified.bullets, classified.metrics, table_data)

\* C23: a section that is not skipped takes one branch, table before metrics
\* before bullets before none: with a table one "table" slide and, exactly
\* when it has bullets, a second "bullet" slide titled "<title> - main
\* contents"; else with a metric one "metrics" slide; else with a bullet
\* "bullet" slides only; else one "title_only" slide. It yields at least one
\* slide and its slides share one importance.
C23_OneBranchPerSection ==
    presentation # NoneRec =>
        OneBranch(presentation.slides, TitleText(TheSection),
                  ClassifyItems(TheSection.content),
                  SlideTable(TheSection.tables, TheSection.content))

\* a section with a table, a metric and bullets gave a table slide and a
\* bullet slide, and no metrics slide
C23_Witness ==
    /\ presentation # NoneRec
    /\ TheSection.tables # <<>>
    /\ ClassifyItems(TheSection.content).metrics # <<>>
    /\ Len(presentation.slides) = 2
    /\ presentation.slides[1].layout_hint = "table"
    /\ presentation.slides[2].layout_hint = "bullet"

\* the bullets of the slides, one after the other
RECURSIVE AllBullets(_)
AllBullets(out) ==
    IF out = <<>> THEN <<>> ELSE Head(out).bullets \o AllBullets(Tail(out))

\* the titles of the slides of n bullets: numbered from 1 when there is more
\* than one slide, the bare title otherwise
ChunkTitles(out, title) ==
    IF Len(out) > 1
    THEN \A k \in 1..Len(out) :
             out[k].title = title \o <<" ", "(">> \o ToDecimal(k) \o <<")">>
    ELSE out[1].title = title

Chunked(out, title, bullets) ==
    /\ Len(out) * MAX_BULLETS_PER_SLIDE >= Len(bullets)
    /\ (Len(out) - 1) * MAX_BULLETS_PER_SLIDE < Len(bullets)
    /\ \A k \in 1..Len(out) : out[k].layout_hint = "bullet"
    /\ AllBullets(out) = bullets
    /\ ChunkTitles(out, title)

\* the section has bullets and neither a table nor a metric
OnlyBullets(classified, table_data) ==
    /\ table_data = NoneRec
    /\ classified.metrics = <<>>
    /\ classified.bullets # <<>>

\* C24: a section with n >= 1 summarized bullets and neither table nor
\* metrics gives ceil(n/5) "bullet" slides; their bullets, in slide order,
\* are the section's summarized bullets, none lost, doubled or moved; the
\* titles end in " (k)", k = 1..ceil(n/5), exactly when there is more than
\* one slide, and are the bare title otherwise.
C24_BulletsChunkedInOrder ==
    (/\ presentation # NoneRec
     /\ OnlyBullets(ClassifyItems(TheSection.content),
                    SlideTable(TheSection.tables, TheSection.content))) =>
        Chunked(presentation.slides, TitleText(TheSection),
                ClassifyItems(TheSection.content).bullets)

\* a section of eleven bullets gave three slides, the last with one bullet
C24_Witness ==
    /\ presentation # NoneRec
    /\ OnlyBullets(ClassifyItems(TheSection.content),
                   SlideTable(TheSection.tables, TheSection.content))
    /\ Len(ClassifyItems(TheSection.content).bullets)
           = 2 * MAX_BULLETS_PER_SLIDE + 1
    /\ Len(presentation.slides) = 3
    /\ Len(presentation.slides[3].bullets) = 1

\* the score of a title: 3 with a keyword of the second list, else 2 with a
\* keyword of the first, else 1
ScoreOfTitle(title) ==
    IF ContainsAny(title, VeryImportant) THEN 3
    ELSE IF ContainsAny(title, IMPORTANT_KEYWORDS) THEN 2
    ELSE 1

\* C26: every SlideContent has an importance of 1, 2 or 3: 3 when the title
\* of its section contains a critical keyword, also when it contains a
\* notable keyword too; else 2 when the title contains a notable keyword;
\* else 1. The bullets of the section have no part in it.
C26_ImportanceFromTitleOnly ==
    presentation # NoneRec =>
        \A i \in 1..Len(presentation.slides) :
            /\ presentation.slides[i].importance \in {1, 2, 3}
            /\ presentation.slides[i].importance
                   = ScoreOfTitle(TitleText(TheSection))

\* a section whose title holds a notable keyword and, after it, a critical
\* one scored 3; its bullets name keywords too
C26_Witness ==
    /\ presentation # NoneRec
    /\ Contains(TitleText(TheSection), <<"<ye>", "<san>", " ", "<gae>", "<yo>">>)
    /\ TheSection.content = KeywordBullets
    /\ presentation.slides[1].importance = 3

\* what a bullet text becomes: the text without emphasis markers, trimmed
\* when it has at most 60 characters; else the part before its first colon,
\* trimmed, when that part has at most 60 characters; else its first 57
\* characters and "..."
BeforeColon(stripped) == Slice(stripped, 1, IndexFrom(stripped, ":", 1) - 1)

ShortBullet(stripped) ==
    IF Len(stripped) <= 60 THEN Strip(stripped)
    ELSE IF Contains(stripped, <<":">>) /\ Len(BeforeColon(stripped)) <= 60
    THEN Strip(BeforeColon(stripped))
    ELSE SubSeq(stripped, 1, 57) \o <<".", ".", ".">>

\* the bullets of a list of bullet items: those that are not empty
ShortBullets(items) ==
    SelectSeq([i \in 1..Len(items) |-> ShortBullet(StripEmphasis(items[i].text))],
              LAMBDA b : b # <<>>)

\* the section holds bullet items only and no table
BulletItemsOnly(section) ==
    /\ section.tables = <<>>
    /\ \A i \in 1..Len(section.content) :
           section.content[i].type \in {"bullet", "numbered"}

\* C28: _summarize_bullet takes the emphasis markers out of the text and
\* returns it trimmed when it has at most 60 characters, else the trimmed
\* part before the first ':' when that part has at most 60 characters, else
\* the first 57 characters and "..."; so no bullet of any SlideContent has
\* more than 60 characters.
C28_BulletsShortened ==
    presentation # NoneRec =>
        /\ \A i \in 1..Len(presentation.slides) :
               \A k \in 1..Len(presentation.slides[i].bullets) :
                   Len(presentation.slides[i].bullets[k]) <= 60
        /\ BulletItemsOnly(TheSection) =>
               AllBullets(presentation.slides) = ShortBullets(TheSection.content)

\* bullets of more than 60 characters were shortened at the colon and by the
\* cut, next to one of exactly 60 characters that was kept whole
C28_Witness ==
    /\ presentation # NoneRec
    /\ TheSection.content = LongBullets
    /\ TheSection.tables = <<>>
    /\ presentation.slides[1].bullets[1] = <<"k">>
    /\ EndsWith(presentation.slides[1].bullets[3], <<"y", ".", ".", ".">>)
    /\ presentation.slides[1].bullets[4] = SubSeq(LongText, 1, 60)

(***************************************************************************)
(* content_summarizer.py: the slides kept of a long deck                   *)
(***************************************************************************)
MaxDeckSections == 2

\* sections of eight slides each, of importance 1, 1, 2 and 3, and a section
\* of one slide
DeckVocab ==
    {SlideData(title, Bullets(8 * MAX_BULLETS_PER_SLIDE), <<>>) :
        title \in {<<"S">>, <<"U">>, <<"<ye>", "<san>">>, <<"<gae>", "<yo>">>}}
    \cup {SlideData(<<"<ye>", "<san>", " ", "2">>, Bullets(1), <<>>)}

DeckDocs ==
    {[title |-> <<"T">>, slides |-> slides, metadata |-> <<>>] :
        slides \in UNION {[1..n -> DeckVocab] : n \in 0..MaxDeckSections}}

\* ContentSummarizer() and such a document
DeckInit ==
    /\ parsed_data \in DeckDocs
    /\ self_parsed_content = NoneRec
    /\ presentation = NoneRec
    /\ summaries = <<>>

InitDeck ==
    DeckInit /\ ParserIdle /\ FitIdle /\ LayoutIdle /\ AnalyzerIdle
        /\ DesignIdle
        /\ RoutersIdle

SpecDeck == InitDeck /\ [][SummarizerNext]_vars

\* the slides of one importance, in the order they have
OfImportance(slides, v) == SelectSeq(slides, LAMBDA s : s.importance = v)

\* sub can be had from full by leaving slides out
RECURSIVE IsSubsequence(_, _)
IsSubsequence(sub, full) ==
    IF sub = <<>> THEN TRUE
    ELSE IF full = <<>> THEN FALSE
    ELSE IF Head(sub) = Head(full) THEN IsSubsequence(Tail(sub), Tail(full))
    ELSE IsSubsequence(sub, Tail(full))

\* the 15 slides kept of more: ordered by importance, descending; the slides
\* of one importance in document order; no slide left out that is more
\* important than one kept
KeptByImportance(kept, slides) ==
    /\ Len(kept) = 15
    /\ \A k \in 1..(Len(kept) - 1) : kept[k].importance >= kept[k + 1].importance
    /\ \A v \in 1..3 : IsSubsequence(OfImportance(kept, v), OfImportance(slides, v))
    /\ \A v \in 1..3 :
           Len(OfImportance(kept, v)) < Len(OfImportance(slides, v)) =>
               \A k \in 1..Len(kept) : kept[k].importance >= v

KeptOf(kept, slides) ==
    IF Len(slides) > 15 THEN KeptByImportance(kept, slides) ELSE kept = slides

\* C25: when the sections give more than 15 slides the result has exactly
\* 15; every slide kept is at least as important as every slide dropped; the
\* slides kept are ordered by importance, descending, and those of equal
\* importance keep their document order. When the sections give at most 15
\* slides the list is returned as it is, in document order.
C25_MostImportantFifteen ==
    presentation # NoneRec =>
        KeptOf(presentation.slides, ExtendSlides(<<>>, parsed_data.slides))

\* a section of importance 1 before a section of importance 3, of 16 slides
\* together: the slides of the later section come first and slides of the
\* earlier one fill the rest, in their order
C25_Witness ==
    /\ presentation # NoneRec
    /\ Len(ExtendSlides(<<>>, parsed_data.slides)) > 15
    /\ ExtendSlides(<<>>, parsed_data.slides)[1].importance = 1
    /\ presentation.slides[1].importance = 3
    /\ presentation.slides[15].importance = 1
    /\ presentation.slides[15].title # presentation.slides[14].title

(***************************************************************************)
(* md_parser.py: the lines of one section                                  *)
(***************************************************************************)
MaxBlocksInBody == 3

\* a line of a section and what it is to give: the list it goes to and the
\* text kept of it
BodyLine(line, kind, text) == [line |-> line, kind |-> kind, text |-> text]

\* lines that more than one pattern matches, a plain line, table rows and a
\* blank line
BodyVocab ==
    { BodyLine(<<"-", " ", "!", "[", "a", "]", "(", "u", ")">>, "image", <<"u">>),
      BodyLine(<<" ", "*", " ", "1", ".", " ", "x", " ">>, "bullet",
               <<"1", ".", " ", "x">>),
      BodyLine(<<"2", ".", " ", "#", "#", "#", " ", "n">>, "numbered",
               <<"#", "#", "#", " ", "n">>),
      BodyLine(<<"#", "#", "#", " ", "-", "-", "-">>, "subheading",
               <<"-", "-", "-">>),
      BodyLine(<<"-", "-", "-", " ", "p">>, "break", <<>>),
      BodyLine(<<"p", ".">>, "text", <<"p", ".">>),
      BodyLine(<<"|", " ", "a", " ", "|">>, "row", <<>>),
      BodyLine(<<"|", " ", "b", " ", "|">>, "row", <<>>),
      BodyLine(<<" ", "|", "c", "|">>, "row", <<>>),
      BodyLine(<<"|", "d", "|", " ">>, "row", <<>>),
      BodyLine(<<"|", "e", "|">>, "row", <<>>),
      BodyLine(<<>>, "blank", <<>>) }

\* the blocks a section is made of: a line that is not a row of a table of
\* two rows, or one of two tables of two rows
BodyBlocks ==
    { <<v.line>> : v \in {w \in BodyVocab : w.line \notin {<<"|", " ", "a", " ", "|">>,
                                                          <<"|", " ", "b", " ", "|">>,
                                                          <<" ", "|", "c", "|">>,
                                                          <<"|", "d", "|", " ">>}} }
    \cup { << <<"|", " ", "a", " ", "|">>, <<"|", " ", "b", " ", "|">> >>,
           << <<" ", "|", "c", "|">>, <<"|", "d", "|", " ">> >> }

BodyTexts ==
    {<<"#", "#", " ", "S">>
        \o Join([i \in 1..Len(body) |-> <<NL>> \o Join(body[i], <<NL>>)], <<>>) :
        body \in UNION {[1..n -> BodyBlocks] : n \in 0..MaxBlocksInBody}}

\* MarkdownParser() given a section of such lines
BodyInit ==
    /\ md_content \in BodyTexts
    /\ parser_pc = "ready"
    /\ parser_result = NoneRec
    /\ metadata_result = [returned |-> FALSE, value |-> <<>>]
    /\ mistune_result = NoneRec

InitBody ==
    BodyInit /\ SummarizerIdle /\ FitIdle /\ LayoutIdle /\ AnalyzerIdle
        /\ DesignIdle
        /\ RoutersIdle

SpecBody == InitBody /\ [][ParserNext]_vars

\* the lines of the section after its heading, each as the vocabulary has it
BodyOf(text) ==
    [i \in 1..(Len(Split(text, NL)) - 1) |->
        CHOOSE v \in BodyVocab : v.line = Split(text, NL)[i + 1]]

\* the content items the lines are to give, in source order
ContentOf(body) ==
    [i \in 1..Len(SelectSeq(body, LAMBDA v : v.kind \in {"bullet", "numbered",
                                                         "subheading", "text"})) |->
        Item(SelectSeq(body, LAMBDA v : v.kind \in {"bullet", "numbered",
                                                    "subheading", "text"})[i].kind,
             SelectSeq(body, LAMBDA v : v.kind \in {"bullet", "numbered",
                                                    "subheading", "text"})[i].text)]

\* the images the lines are to give, in source order
ImagesOf(body) ==
    [i \in 1..Len(SelectSeq(body, LAMBDA v : v.kind = "image")) |->
        [alt |-> <<"a">>, src |-> SelectSeq(body, LAMBDA v : v.kind = "image")[i].text]]

\* the runs of table rows that follow one another, each run closed into the
\* table _parse_table makes of it, if it makes one
RECURSIVE RowRuns(_, _, _)
ClosedRun(run) ==
    IF run = <<>> \/ parse_table(run) = NoneRec THEN <<>> ELSE <<parse_table(run)>>

RowRuns(body, i, run) ==
    IF i > Len(body) THEN ClosedRun(run)
    ELSE IF body[i].kind = "row"
    THEN RowRuns(body, i + 1, Append(run, Strip(body[i].line)))
    ELSE ClosedRun(run) \o RowRuns(body, i + 1, <<>>)

SectionOf(slide, body) ==
    /\ slide.content = ContentOf(body)
    /\ slide.images = ImagesOf(body)
    /\ slide.tables = RowRuns(body, 1, <<>>)

\* C27: in a section every line that is neither blank nor a table row gives
\* one outcome, that of the first pattern that matches it, in the order
\* image, bullet, numbered, subheading, thematic break (nothing), plain
\* text; the content items keep source order; table rows that follow one
\* another are buffered and closed into one table by the first blank or
\* other line or by the end of the section, so two tables with a blank line
\* between them give two tables in source order.
C27_FirstPatternPerLine ==
    parser_pc = "parsed" =>
        /\ Len(parser_result.slides) = 1
        /\ SectionOf(parser_result.slides[1], BodyOf(md_content))

\* two tables of two rows with a blank line between them gave two tables
C27_Witness ==
    /\ parser_pc = "parsed"
    /\ Len(BodyOf(md_content)) = 5
    /\ BodyOf(md_content)[2].kind = "row"
    /\ BodyOf(md_content)[3].kind = "blank"
    /\ BodyOf(md_content)[4].kind = "row"
    /\ Len(parser_result.slides[1].tables) = 2
    /\ parser_result.slides[1].tables[1] # parser_result.slides[1].tables[2]

(***************************************************************************)
(* routers/generate.py: generate_smart_ppt, generate_from_text,            *)
(* generate_from_file                                                      *)
(***************************************************************************)
MaxRequests == 2

\* the texts of the requests: one with an H1 line and one without
RequestTexts ==
    { <<"#", " ", "T", NL, "#", "#", " ", "S">>, <<"#", "#", " ", "S">> }

\* Document(title=..., status=DocumentStatus.PROCESSING.value): the other
\* columns are NULL
Document(title, status) ==
    [title |-> title, status |-> status, output_path |-> None,
     error_message |-> None]

\* str(e) of the errors generation ends in, each text one token
MessageOf(raised) ==
    IF raised = "TypeError"
    THEN <<"'NoneType' object is not iterable">>
    ELSE <<"[Errno 28] No space left on device">>

\* prs.save(output_path) on a full disk
RaisedOSError == [returned |-> FALSE, raised |-> "OSError", path |-> <<>>]

\* title = presentation_content.title or "presentation"
SmartTitle(content) ==
    IF Truthy(content.title) THEN content.title ELSE SafeOrDefault(<<>>)

\* generate_smart_ppt: the path of the saved deck, or the error raised. The
\* smart mode builds the path as _generate_output_path does; the other mode
\* is PPTGenerator.generate
SmartPpt(parsed, use_smart_mode, unique_id) ==
    IF use_smart_mode
    THEN ReturnedPath(generate_output_path(SmartTitle(summarize(parsed)), unique_id))
    ELSE IF parsed.title = None THEN RaisedTypeError
    ELSE ReturnedPath(generate_output_path(parsed.title, unique_id))

generate_smart_ppt(text, use_smart_mode, unique_id, saved) ==
    IF SmartPpt(parse(text), use_smart_mode, unique_id).returned /\ ~saved
    THEN RaisedOSError
    ELSE SmartPpt(parse(text), use_smart_mode, unique_id)

\* if parsed_data.get("title"): document.title = parsed_data["title"]
Retitled(doc, parsed) ==
    IF Truthy(parsed.title) THEN [doc EXCEPT !.title = parsed.title] ELSE doc

\* an except block that records the message and leaves the status alone
FailedDocumentUnmarked(doc, message) == [doc EXCEPT !.error_message = message]

\* the except block: status and error_message
FailedDocument(doc, message) ==
    [doc EXCEPT !.status = "failed", !.error_message = message]

\* the end of the try block: output_path and status
CompletedDocument(doc, output_path) ==
    [doc EXCEPT !.output_path = output_path, !.status = "completed"]

\* the document once the try block has returned or raised
Generated(doc, outcome) ==
    IF outcome.returned THEN CompletedDocument(doc, outcome.path)
    ELSE FailedDocument(doc, MessageOf(outcome.raised))

Request(endpoint, pc, document_id, text, smart_mode) ==
    [endpoint |-> endpoint, pc |-> pc, document_id |-> document_id,
     md_content |-> text, smart_mode |-> smart_mode]

\* no request yet, the documents table empty
GenerateInit ==
    /\ documents = <<>>
    /\ requests = <<>>
    /\ templates = {}

\* generate_from_text without md_content, generate_from_file with a file
\* that is not named .md: HTTP 400 before any row is made
RejectRequest(endpoint) ==
    /\ Len(requests) < MaxRequests
    /\ requests' = Append(requests, Request(endpoint, "rejected", 0, <<>>, TRUE))
    /\ UNCHANGED <<documents, templates>>
    /\ UNCHANGED NotRouterVars

\* generate_from_text up to its first commit: the row with status processing
BeginFromText(text, smart_mode) ==
    /\ Len(requests) < MaxRequests
    /\ documents' = Append(documents,
                           Document(<<"U", "n", "t", "i", "t", "l", "e", "d">>,
                                    "processing"))
    /\ requests' = Append(requests,
                          Request("from-text", "processing", Len(documents) + 1,
                                  text, smart_mode))
    /\ UNCHANGED templates
    /\ UNCHANGED NotRouterVars

\* generate_from_file up to its first commit; the title is the file name
\* without ".md"
BeginFromFile(text, smart_mode) ==
    /\ Len(requests) < MaxRequests
    /\ documents' = Append(documents, Document(<<"f">>, "processing"))
    /\ requests' = Append(requests,
                          Request("from-file", "processing", Len(documents) + 1,
                                  text, smart_mode))
    /\ UNCHANGED templates
    /\ UNCHANGED NotRouterVars

\* the try block of either handler and its except block: parse, the title,
\* generate_smart_ppt, then the commit of completed or of failed
EndRequest(h, unique_id, saved) ==
    /\ h \in 1..Len(requests)
    /\ requests[h].pc = "processing"
    /\ documents' =
           [documents EXCEPT ![requests[h].document_id] =
               Generated(Retitled(@, parse(requests[h].md_content)),
                         generate_smart_ppt(requests[h].md_content,
                                            requests[h].smart_mode,
                                            unique_id, saved))]
    /\ requests' =
           [requests EXCEPT ![h].pc =
               IF generate_smart_ppt(requests[h].md_content,
                                     requests[h].smart_mode, unique_id,
                                     saved).returned
               THEN "returned" ELSE "raised"]
    /\ UNCHANGED templates
    /\ UNCHANGED NotRouterVars

GenerateNext ==
    \/ \E endpoint \in {"from-text", "from-file"} : RejectRequest(endpoint)
    \/ \E text \in RequestTexts, smart_mode \in BOOLEAN :
           BeginFromText(text, smart_mode)
    \/ \E text \in RequestTexts, smart_mode \in BOOLEAN :
           BeginFromFile(text, smart_mode)
    \/ \E h \in 1..MaxRequests, unique_id \in UniqueIds, saved \in BOOLEAN :
           EndRequest(h, unique_id, saved)

InitGenerate ==
    GenerateInit /\ ParserIdle /\ SummarizerIdle /\ FitIdle /\ LayoutIdle
        /\ AnalyzerIdle /\ DesignIdle

SpecGenerate == InitGenerate /\ [][GenerateNext]_vars

\* the row of a request is as the request's position says
RowOf(request, doc) ==
    /\ request.pc = "processing" => doc.status = "processing"
    /\ request.pc = "returned" =>
           doc.status = "completed" /\ Truthy(doc.output_path)
    /\ request.pc = "raised" =>
           doc.status = "failed" /\ doc.error_message # None

RowsFollowRequests ==
    /\ \A h \in 1..Len(requests) :
           requests[h].pc # "rejected" =>
               RowOf(requests[h], documents[requests[h].document_id])
    /\ \A d \in 1..Len(documents) :
           documents[d].status = "completed" => Truthy(documents[d].output_path)

StatusIsFinal ==
    \A d \in 1..Len(documents) :
        documents[d].status \in {"completed", "failed"} =>
            documents'[d].status = documents[d].status

\* C29: generate_from_text and generate_from_file make the Document row with
\* status processing before generation starts; when the handler has finished
\* the row is completed with its output_path set, if parsing and generation
\* succeeded, or failed with its error_message set, if either raised; no row
\* of a finished handler is processing, a completed row has an output_path
\* that is not empty, and a status of completed or failed never changes.
C29_StatusLifecycle == []RowsFollowRequests /\ [][StatusIsFinal]_vars

\* one request ended in completed and another, in the mode without summary
\* for a text without title, in failed
C29_Witness ==
    \E h \in 1..Len(requests) : \E g \in 1..Len(requests) :
        /\ requests[h].pc = "returned"
        /\ documents[requests[h].document_id].status = "completed"
        /\ requests[g].pc = "raised"
        /\ ~requests[g].smart_mode
        /\ documents[requests[g].document_id].error_message
               = MessageOf("TypeError")

(***************************************************************************)
(* routers/templates.py: create_template, update_template,                 *)
(* delete_template, upload_template                                        *)
(***************************************************************************)
MaxTemplates == 3

Template(id, is_default, is_active) ==
    [id |-> id, is_default |-> is_default, is_active |-> is_active]

\* the id of a new row: the primary key without AUTOINCREMENT is one more
\* than the largest id of the table
NewId(rows) ==
    IF rows = {} THEN 1
    ELSE 1 + CHOOSE id \in {t.id : t \in rows} :
                 \A other \in {t.id : t \in rows} : other <= id

\* template_data.model_dump(exclude_unset=True), of the two flags: the
\* fields the request sets, with their values
UpdateData ==
    UNION { [fields -> BOOLEAN] : fields \in SUBSET {"is_default", "is_active"} }

\* for field, value in update_data.items(): setattr(template, field, value)
Updated(template, update_data) ==
    [field \in DOMAIN template |->
        IF field \in DOMAIN update_data THEN update_data[field]
        ELSE template[field]]

\* db.query(Template).filter(Template.is_default == True)
\*   .update({"is_default": False})
DefaultsCleared(rows) == {[t EXCEPT !.is_default = FALSE] : t \in rows}

\* a store with at most one default template
TemplatesInit ==
    /\ documents = <<>>
    /\ requests = <<>>
    /\ templates \in {{}, {Template(1, TRUE, TRUE)}, {Template(1, FALSE, TRUE)}}

\* Template(**template_data.model_dump()); is_active is the column's default
create_template(is_default) ==
    /\ NewId(templates) <= MaxTemplates
    /\ templates' = templates \cup {Template(NewId(templates), is_default, TRUE)}
    /\ UNCHANGED <<documents, requests>>
    /\ UNCHANGED NotRouterVars

\* the row of template_id with the fields of the request set; 404 without
\* the row
update_template(template_id, update_data) ==
    /\ \E t \in templates : t.id = template_id
    /\ templates' = {IF t.id = template_id THEN Updated(t, update_data) ELSE t :
                         t \in templates}
    /\ UNCHANGED <<documents, requests>>
    /\ UNCHANGED NotRouterVars

delete_template(template_id) ==
    /\ \E t \in templates : t.id = template_id
    /\ templates' = {t \in templates : t.id # template_id}
    /\ UNCHANGED <<documents, requests>>
    /\ UNCHANGED NotRouterVars

\* an upload of a .pptx file that analyze_template accepts; any other upload
\* ends in HTTP 400 before the table is touched
upload_template(is_default) ==
    /\ NewId(templates) <= MaxTemplates
    /\ templates' =
           IF is_default
           THEN DefaultsCleared(templates)
                    \cup {Template(NewId(templates), TRUE, TRUE)}
           ELSE templates \cup {Template(NewId(templates), FALSE, TRUE)}
    /\ UNCHANGED <<documents, requests>>
    /\ UNCHANGED NotRouterVars

TemplatesNext ==
    \/ \E is_default \in BOOLEAN : create_template(is_default)
    \/ \E template_id \in 1..MaxTemplates, update_data \in UpdateData :
           update_template(template_id, update_data)
    \/ \E template_id \in 1..MaxTemplates : delete_template(template_id)
    \/ \E is_default \in BOOLEAN : upload_template(is_default)

InitTemplates ==
    TemplatesInit /\ ParserIdle /\ SummarizerIdle /\ FitIdle /\ LayoutIdle
        /\ AnalyzerIdle /\ DesignIdle

SpecTemplates == InitTemplates /\ [][TemplatesNext]_vars

\* C30: at most one Template row has is_default = true in every reachable
\* state, after any sequence of create_template, update_template,
\* upload_template and delete_template calls on a store with at most one
\* default template.
C30_AtMostOneDefault ==
    Cardinality({t \in templates : t.is_default}) <= 1

====
